---- MODULE Spec2Model ----
(***************************************************************************)
(* Two-phase commit engine of libaugrim (src/libaugrim/src/two_phase_commit)*)
(* The coordinator and participant engines are pure functions              *)
(*   event(event, context) -> Result<Vec<Action>, AlgorithmError>          *)
(* modelled by the operators CoordinatorEvent and ParticipantEvent, and    *)
(* the unified engine by TwoPhaseCommitEvent.  The specifications:         *)
(*   Spec        one coordinator and its participants, started from        *)
(*               epoch-0 contexts, exchanging messages over a lossy,       *)
(*               duplicating, reordering network;                          *)
(*   EngineSpec  the engines applied to arbitrary contexts and arbitrary   *)
(*               events of their alphabet;                                 *)
(*   FairSpec    the runs of Spec under fair scheduling;                   *)
(*   UnifiedSpec the context builder and the unified engine on what it     *)
(*               built;                                                    *)
(*   DualSpec    every process on the unified engine, the coordinator      *)
(*               listed among its own participants;                        *)
(*   SequenceSpec the coordinator engine alone, fed any sequence of its    *)
(*               events from its epoch-0 context.                          *)
(***************************************************************************)
EXTENDS Integers, Sequences, FiniteSets, TLC

VARIABLES cctx, ctimer, pctx, ptimer, net, now, lastCall,
          decisions, decisionSent, yesRecorded, builder, built, uctx, utimer

vars == <<cctx, ctimer, pctx, ptimer, net, now, lastCall,
          decisions, decisionSent, yesRecorded, builder, built, uctx, utimer>>

\* The fields of a TwoPhaseCommitContextBuilder and the result of its build.
builderVars == <<builder, built>>

\* No builder is in use: the contexts are held by the role engines' embedders.
NoBuilder == [used |-> FALSE]
NotBuilt == [called |-> FALSE]

\* The unified contexts and timers of processes that all run the unified
\* engine; empty where the role engines are driven directly.
unifiedVars == <<uctx, utimer>>
NoUnified == << >>

(***************************************************************************)
(* Bounds of the model.                                                    *)
(***************************************************************************)
MaxEpoch == 2
MaxTime == 45

(***************************************************************************)
(* Program constants.                                                      *)
(***************************************************************************)
ACK_TIMEOUT_SECONDS == 5
VOTE_TIMEOUT_SECONDS == 30
DECISION_TIMEOUT_SECONDS == 30

(***************************************************************************)
(* Processes and values.  X is a process that is in no participant list.   *)
(***************************************************************************)
Coord == "C"
P1 == "P1"
P2 == "P2"
Outsider == "X"
Proc == {Coord, P1, P2, Outsider}
Values == {42}
Epochs == 0..MaxEpoch

(***************************************************************************)
(* Option<T>: None is modelled by -1, Some(x) by x (x is a natural), so    *)
(* that Rust's ordering None < Some(_) is the integer ordering.  An        *)
(* Option<bool> vote is one of three strings.                              *)
(***************************************************************************)
NoneV == 0 - 1
IsSome(o) == o # NoneV
VoteNone == "None"
VoteSome(b) == IF b THEN "Some(true)" ELSE "Some(false)"

Participant(process) ==
    [process |-> process, vote |-> VoteNone, decision_ack |-> FALSE]

(***************************************************************************)
(* States.  Every state is a record of the same shape; start and vote are  *)
(* meaningful only for the variants that carry them.                       *)
(***************************************************************************)
State(kind) == [kind |-> kind, start |-> NoneV, vote |-> FALSE]
Abort == State("Abort")
Commit == State("Commit")
WaitingForStart == State("WaitingForStart")
WaitingForVote == State("WaitingForVote")
WaitingForVoteRequest == State("WaitingForVoteRequest")
Voting(vote_timeout_start) ==
    [kind |-> "Voting", start |-> vote_timeout_start, vote |-> FALSE]
WaitingForDecisionAck(ack_timeout_start) ==
    [kind |-> "WaitingForDecisionAck", start |-> ack_timeout_start, vote |-> FALSE]
Voted(vote, decision_timeout_start) ==
    [kind |-> "Voted", start |-> decision_timeout_start, vote |-> vote]

CoordinatorStateKinds ==
    {"Abort", "Commit", "Voting", "WaitingForDecisionAck", "WaitingForStart",
     "WaitingForVote"}
ParticipantStateKinds ==
    {"Abort", "Commit", "Voted", "WaitingForVoteRequest", "WaitingForVote"}

(***************************************************************************)
(* Messages, events and actions.                                           *)
(***************************************************************************)
Message(type, epoch, vote, value) ==
    [type |-> type, epoch |-> epoch, vote |-> vote, value |-> value]
VoteRequest(epoch, value) == Message("VoteRequest", epoch, FALSE, value)
VoteResponse(epoch, vote) == Message("VoteResponse", epoch, vote, 0)
CommitMsg(epoch) == Message("Commit", epoch, FALSE, 0)
AbortMsg(epoch) == Message("Abort", epoch, FALSE, 0)
DecisionRequest(epoch) == Message("DecisionRequest", epoch, FALSE, 0)
DecisionAck(epoch) == Message("DecisionAck", epoch, FALSE, 0)

Event(type, from, msg, vote, value) ==
    [type |-> type, from |-> from, msg |-> msg, vote |-> vote, value |-> value]
NoMsg == Message("None", 0, FALSE, 0)
StartEv(value) == Event("Start", Coord, NoMsg, FALSE, value)
VoteEv(vote) == Event("Vote", Coord, NoMsg, vote, 0)
AlarmEv == Event("Alarm", Coord, NoMsg, FALSE, 0)
Deliver(from, msg) == Event("Deliver", from, msg, FALSE, 0)

Update(context, alarm) ==
    [type |-> "Update", context |-> context, alarm |-> alarm]
SendMessage(to, msg) == [type |-> "SendMessage", to |-> to, msg |-> msg]
Notify(kind) == [type |-> "Notify", kind |-> kind, reason |-> "", value |-> 0]
RequestForVoteValue(value) ==
    [type |-> "Notify", kind |-> "RequestForVote", reason |-> "", value |-> value]
MessageDropped(reason) ==
    [type |-> "Notify", kind |-> "MessageDropped", reason |-> reason, value |-> 0]

Ok(actions) == [ok |-> TRUE, actions |-> actions, error |-> ""]
Err(error) == [ok |-> FALSE, actions |-> <<>>, error |-> error]

MapSeq(s, F(_)) == [i \in 1..Len(s) |-> F(s[i])]
SeqToSet(s) == {s[i] : i \in 1..Len(s)}

(***************************************************************************)
(* Contexts.  TwoPhaseCommitContext<P, T, CoordinatorContext> and          *)
(* TwoPhaseCommitContext<P, T, ParticipantContext>.                        *)
(***************************************************************************)
CoordinatorContext(alarm, coordinator, epoch, last_commit_epoch, this_process, participants, state) ==
    [alarm |-> alarm, coordinator |-> coordinator, epoch |-> epoch,
     last_commit_epoch |-> last_commit_epoch, this_process |-> this_process,
     participants |-> participants, state |-> state]

ParticipantContext(alarm, coordinator, epoch, last_commit_epoch, this_process, participant_processes, state) ==
    [alarm |-> alarm, coordinator |-> coordinator, epoch |-> epoch,
     last_commit_epoch |-> last_commit_epoch, this_process |-> this_process,
     participant_processes |-> participant_processes, state |-> state]

(***************************************************************************)
(* Coordinator algorithm.                                                  *)
(***************************************************************************)
\* Fault injection: the ack wait is armed with the vote timeout.
push_wait_with_vote_timeout(context, time) ==
    LET ack_timeout_start == time
        ack_timeout_end == ack_timeout_start + VOTE_TIMEOUT_SECONDS
        c == [context EXCEPT !.state = WaitingForDecisionAck(ack_timeout_start)]
    IN  <<Update(c, ack_timeout_end)>>

push_wait_for_decision_ack(context, time) ==
    LET ack_timeout_start == time
        ack_timeout_end == ack_timeout_start + ACK_TIMEOUT_SECONDS
        c == [context EXCEPT !.state = WaitingForDecisionAck(ack_timeout_start)]
    IN  <<Update(c, ack_timeout_end)>>

\* Fault injection: Abort is sent to every participant.
AbortRecipientsAll(context) ==
    context.participants

AbortRecipients(context) ==
    SelectSeq(context.participants, LAMBDA p : p.vote = VoteSome(TRUE))

\* Fault injection: the Abort messages leave before the state is recorded.
push_abort_send_first(context, time) ==
    LET c == [context EXCEPT !.state = Abort]
        SendAbort(p) == SendMessage(p.process, AbortMsg(c.epoch))
    IN  MapSeq(AbortRecipients(c), SendAbort)
        \o <<Update(c, NoneV)>>
        \o <<Notify("Abort")>>
        \o push_wait_for_decision_ack(c, time)

push_abort_actions(context, time) ==
    LET c == [context EXCEPT !.state = Abort]
        SendAbort(p) == SendMessage(p.process, AbortMsg(c.epoch))
    IN  <<Update(c, NoneV)>>
        \o MapSeq(AbortRecipients(c), SendAbort)
        \o <<Notify("Abort")>>
        \o push_wait_for_decision_ack(c, time)

\* Fault injection: the last commit epoch is taken after the epoch was raised.
AdvanceLastCommitEpochLate(context) ==
    IF context.state = Commit THEN context.epoch + 1
    ELSE context.last_commit_epoch

AdvanceLastCommitEpoch(context) ==
    IF context.state = Commit THEN context.epoch ELSE context.last_commit_epoch

\* Fault injection: the advance skips an epoch.
SkipEpoch(epoch) == epoch + 2

\* context.set_epoch(context.epoch() + 1)
NextEpoch(epoch) == epoch + 1

\* Fault injection: the advance keeps the decision acks of the old epoch.
push_advance_epoch_keep_acks(context) ==
    LET c == [context EXCEPT
                !.last_commit_epoch = AdvanceLastCommitEpoch(context),
                !.epoch = NextEpoch(context.epoch),
                !.state = WaitingForStart,
                !.participants =
                    [i \in 1..Len(context.participants) |->
                        [context.participants[i] EXCEPT !.vote = VoteNone]]]
    IN  <<Update(c, NoneV), Notify("RequestForStart")>>

push_advance_epoch_actions(context) ==
    LET c == [context EXCEPT
                !.last_commit_epoch = AdvanceLastCommitEpoch(context),
                !.epoch = NextEpoch(context.epoch),
                !.state = WaitingForStart,
                !.participants =
                    [i \in 1..Len(context.participants) |->
                        [context.participants[i] EXCEPT
                            !.vote = VoteNone, !.decision_ack = FALSE]]]
    IN  <<Update(c, NoneV), Notify("RequestForStart")>>

CoordinatorStart(value, context, time) ==
    LET SendVoteRequest(p) ==
            SendMessage(p.process, VoteRequest(context.epoch, value))
        vote_timeout_start == time
        vote_timeout_end == vote_timeout_start + VOTE_TIMEOUT_SECONDS
        c == [context EXCEPT !.state = Voting(vote_timeout_start)]
    IN  Ok(MapSeq(context.participants, SendVoteRequest)
           \o <<Update(c, vote_timeout_end)>>)

\* Fault injection: the coordinator takes a Vote in any state.
CoordinatorVoteAnyState(vote, context, time) ==
    IF vote
    THEN LET c == [context EXCEPT !.state = Commit]
             SendCommit(p) == SendMessage(p.process, CommitMsg(c.epoch))
         IN  Ok(<<Update(c, NoneV)>>
                \o MapSeq(c.participants, SendCommit)
                \o <<Notify("Commit")>>
                \o push_wait_for_decision_ack(c, time))
    ELSE Ok(push_abort_actions(context, time))

\* Fault injection: the commit is announced before it is stored.
CoordinatorVoteSendFirst(vote, context, time) ==
    IF context.state.kind # "WaitingForVote"
    THEN Err("InvalidState")
    ELSE IF vote
         THEN LET c == [context EXCEPT !.state = Commit]
                  SendCommit(p) == SendMessage(p.process, CommitMsg(c.epoch))
              IN  Ok(MapSeq(c.participants, SendCommit)
                     \o <<Update(c, NoneV)>>
                     \o <<Notify("Commit")>>
                     \o push_wait_for_decision_ack(c, time))
         ELSE Ok(push_abort_actions(context, time))

CoordinatorVote(vote, context, time) ==
    IF context.state.kind # "WaitingForVote"
    THEN Err("InvalidState")
    ELSE IF vote
         THEN LET c == [context EXCEPT !.state = Commit]
                  SendCommit(p) == SendMessage(p.process, CommitMsg(c.epoch))
              IN  Ok(<<Update(c, NoneV)>>
                     \o MapSeq(c.participants, SendCommit)
                     \o <<Notify("Commit")>>
                     \o push_wait_for_decision_ack(c, time))
         ELSE Ok(push_abort_actions(context, time))

\* Fault injection: the ack timeout advances the epoch only once some
\* participant has acknowledged the decision.
CoordinatorAlarmNeedsAck(context, time) ==
    CASE context.state.kind = "Voting" ->
            IF time > context.state.start + VOTE_TIMEOUT_SECONDS
            THEN Ok(push_abort_actions(context, time))
            ELSE Ok(<<>>)
      [] context.state.kind = "WaitingForStart" ->
            Ok(<<Notify("RequestForStart"), Update(context, NoneV)>>)
      [] context.state.kind = "WaitingForVote" ->
            Ok(<<Notify("RequestForVote"), Update(context, NoneV)>>)
      [] context.state.kind = "WaitingForDecisionAck" ->
            IF /\ time > context.state.start + ACK_TIMEOUT_SECONDS
               /\ \E i \in 1..Len(context.participants) :
                     context.participants[i].decision_ack
            THEN Ok(push_advance_epoch_actions(context))
            ELSE Ok(<<>>)
      [] context.state.kind = "Commit" ->
            Ok(push_advance_epoch_actions(context))
      [] context.state.kind = "Abort" ->
            Ok(push_advance_epoch_actions(context))

\* Fault injection: the timeout checks compare with >=, so an alarm given at
\* the deadline itself is acted upon.
CoordinatorAlarmAtDeadline(context, time) ==
    CASE context.state.kind = "Voting" ->
            IF time >= context.state.start + VOTE_TIMEOUT_SECONDS
            THEN Ok(push_abort_actions(context, time))
            ELSE Ok(<<>>)
      [] context.state.kind = "WaitingForStart" ->
            Ok(<<Notify("RequestForStart"), Update(context, NoneV)>>)
      [] context.state.kind = "WaitingForVote" ->
            Ok(<<Notify("RequestForVote"), Update(context, NoneV)>>)
      [] context.state.kind = "WaitingForDecisionAck" ->
            IF time >= context.state.start + ACK_TIMEOUT_SECONDS
            THEN Ok(push_advance_epoch_actions(context))
            ELSE Ok(<<>>)
      [] context.state.kind = "Commit" ->
            Ok(push_advance_epoch_actions(context))
      [] context.state.kind = "Abort" ->
            Ok(push_advance_epoch_actions(context))

CoordinatorAlarm(context, time) ==
    CASE context.state.kind = "Voting" ->
            IF time > context.state.start + VOTE_TIMEOUT_SECONDS
            THEN Ok(push_abort_actions(context, time))
            ELSE Ok(<<>>)
      [] context.state.kind = "WaitingForStart" ->
            Ok(<<Notify("RequestForStart"), Update(context, NoneV)>>)
      [] context.state.kind = "WaitingForVote" ->
            Ok(<<Notify("RequestForVote"), Update(context, NoneV)>>)
      [] context.state.kind = "WaitingForDecisionAck" ->
            IF time > context.state.start + ACK_TIMEOUT_SECONDS
            THEN Ok(push_advance_epoch_actions(context))
            ELSE Ok(<<>>)
      [] context.state.kind = "Commit" ->
            Ok(push_advance_epoch_actions(context))
      [] context.state.kind = "Abort" ->
            Ok(push_advance_epoch_actions(context))

\* iter_mut().find(|participant| participant.process == process): the index
\* of the first matching participant, 0 when there is none.
FindParticipant(participants, process) ==
    IF \E i \in 1..Len(participants) : participants[i].process = process
    THEN CHOOSE i \in 1..Len(participants) :
            /\ participants[i].process = process
            /\ \A j \in 1..(i - 1) : participants[j].process # process
    ELSE 0

\* Fault injection: the tally closes as soon as one participant has voted.
SomeVoted(participants) ==
    \E i \in 1..Len(participants) : participants[i].vote # VoteNone

AllVoted(participants) ==
    \A i \in 1..Len(participants) : participants[i].vote # VoteNone

\* Fault injection: the tally looks for a no only in the first vote slot.
FirstVotedNo(participants) ==
    participants # << >> /\ participants[1].vote = VoteSome(FALSE)

AnyVotedNo(participants) ==
    \E i \in 1..Len(participants) : participants[i].vote = VoteSome(FALSE)

\* Fault injection: a second VoteResponse of a participant overwrites its vote.
CoordinatorVoteResponseOverwrite(process, epoch, vote, context, time) ==
    LET i == FindParticipant(context.participants, process) IN
    IF i = 0 THEN Ok(<<MessageDropped("sender process is not a participant")>>)
    ELSE IF context.epoch # epoch
    THEN Ok(<<MessageDropped("epoch is not the current epoch")>>)
    ELSE IF context.state.kind # "Voting"
    THEN Ok(<<MessageDropped("context state is not Voting")>>)
    ELSE LET c == [context EXCEPT !.participants[i].vote = VoteSome(vote)]
             recorded == <<Update(c, NoneV)>>
         IN  IF AllVoted(c.participants)
             THEN IF AnyVotedNo(c.participants)
                  THEN Ok(recorded \o push_abort_actions(c, time))
                  ELSE Ok(recorded
                          \o <<Update([c EXCEPT !.state = WaitingForVote], NoneV),
                               Notify("RequestForVote")>>)
             ELSE Ok(recorded)

\* Fault injection: a vote that arrives outside the voting window, or twice,
\* is an error.
CoordinatorVoteResponseStrict(process, epoch, vote, context, time) ==
    LET i == FindParticipant(context.participants, process) IN
    IF i = 0 THEN Ok(<<MessageDropped("sender process is not a participant")>>)
    ELSE IF context.epoch # epoch
    THEN Ok(<<MessageDropped("epoch is not the current epoch")>>)
    ELSE IF context.state.kind # "Voting"
    THEN Err("InvalidState")
    ELSE IF context.participants[i].vote # VoteNone
    THEN Err("InvalidState")
    ELSE LET c == [context EXCEPT !.participants[i].vote = VoteSome(vote)]
             recorded == <<Update(c, NoneV)>>
         IN  IF AllVoted(c.participants)
             THEN IF AnyVotedNo(c.participants)
                  THEN Ok(recorded \o push_abort_actions(c, time))
                  ELSE Ok(recorded
                          \o <<Update([c EXCEPT !.state = WaitingForVote], NoneV),
                               Notify("RequestForVote")>>)
             ELSE Ok(recorded)

CoordinatorVoteResponse(process, epoch, vote, context, time) ==
    LET i == FindParticipant(context.participants, process) IN
    IF i = 0 THEN Ok(<<MessageDropped("sender process is not a participant")>>)
    ELSE IF context.epoch # epoch
    THEN Ok(<<MessageDropped("epoch is not the current epoch")>>)
    ELSE IF context.state.kind # "Voting"
    THEN Ok(<<MessageDropped("context state is not Voting")>>)
    ELSE IF context.participants[i].vote # VoteNone
    THEN Ok(<<MessageDropped("participant has already voted")>>)
    ELSE LET c == [context EXCEPT !.participants[i].vote = VoteSome(vote)]
             recorded == <<Update(c, NoneV)>>
         IN  IF AllVoted(c.participants)
             THEN IF AnyVotedNo(c.participants)
                  THEN Ok(recorded \o push_abort_actions(c, time))
                  ELSE Ok(recorded
                          \o <<Update([c EXCEPT !.state = WaitingForVote], NoneV),
                               Notify("RequestForVote")>>)
             ELSE Ok(recorded)

\* format!("{:?}", ...) of an Option<Epoch>
DebugOption(epoch) ==
    IF IsSome(epoch) THEN "Some(" \o ToString(epoch) \o ")" ELSE "None"

\* The reason text of the coordinator's unanswerable DecisionRequest.
UnknownDecisionReason(epoch, context) ==
    "decision for requested epoch " \o ToString(epoch)
        \o " is unknown (current epoch: " \o ToString(context.epoch)
        \o ", last commit epoch: " \o DebugOption(context.last_commit_epoch)
        \o ")"

\* The reason text of the coordinator's DecisionAck epoch check.
NotCurrentEpochReason(epoch, context_epoch) ==
    "epoch " \o ToString(epoch) \o " is not the current epoch "
        \o ToString(context_epoch)

\* The sender check of the coordinator's DecisionRequest handler:
\* participants().iter().any(|participant| participant.process != process)
CoordinatorRejectsSender(participants, process) ==
    \E i \in 1..Len(participants) : participants[i].process # process

\* Fault injection: the answer to a DecisionRequest also stores the context
\* with one more epoch on it.
CoordinatorDecisionRequestStoring(process, epoch, context) ==
    IF CoordinatorRejectsSender(context.participants, process)
    THEN Ok(<<MessageDropped("sender process is not a participant")>>)
    ELSE IF epoch = context.last_commit_epoch
    THEN Ok(<<Update([context EXCEPT !.epoch = NextEpoch(context.epoch)], NoneV),
              SendMessage(process, CommitMsg(epoch))>>)
    ELSE IF /\ epoch < context.epoch
            /\ \/ epoch > context.last_commit_epoch
               \/ ~IsSome(context.last_commit_epoch)
    THEN Ok(<<Update([context EXCEPT !.epoch = NextEpoch(context.epoch)], NoneV),
              SendMessage(process, AbortMsg(epoch))>>)
    ELSE Ok(<<MessageDropped(UnknownDecisionReason(epoch, context))>>)

CoordinatorDecisionRequest(process, epoch, context) ==
    IF CoordinatorRejectsSender(context.participants, process)
    THEN Ok(<<MessageDropped("sender process is not a participant")>>)
    ELSE IF epoch = context.last_commit_epoch
    THEN Ok(<<SendMessage(process, CommitMsg(epoch))>>)
    ELSE IF /\ epoch < context.epoch
            /\ \/ epoch > context.last_commit_epoch
               \/ ~IsSome(context.last_commit_epoch)
    THEN Ok(<<SendMessage(process, AbortMsg(epoch))>>)
    ELSE Ok(<<MessageDropped(UnknownDecisionReason(epoch, context))>>)

\* Fault injection: one ack is enough to close the epoch.
SomeAcked(participants) ==
    \E i \in 1..Len(participants) : participants[i].decision_ack

AllAcked(participants) ==
    \A i \in 1..Len(participants) : participants[i].decision_ack

CoordinatorDecisionAck(process, epoch, context) ==
    LET i == FindParticipant(context.participants, process) IN
    IF i = 0 THEN Ok(<<MessageDropped("sender process is not a participant")>>)
    ELSE IF context.epoch # epoch
    THEN Ok(<<MessageDropped(NotCurrentEpochReason(epoch, context.epoch))>>)
    ELSE IF context.state.kind # "WaitingForDecisionAck"
    THEN Ok(<<MessageDropped("context state is not WaitingForDecisionAck")>>)
    ELSE IF context.participants[i].decision_ack
    THEN Ok(<<MessageDropped("participant has already sent a decision ack")>>)
    ELSE LET c == [context EXCEPT !.participants[i].decision_ack = TRUE]
             recorded == <<Update(c, NoneV)>>
         IN  IF AllAcked(c.participants)
             THEN Ok(recorded \o push_advance_epoch_actions(c))
             ELSE Ok(recorded)

CoordinatorMessages == {"VoteResponse", "DecisionRequest", "DecisionAck"}

CoordinatorEvent(event, context, time) ==
    CASE event.type = "Start" -> CoordinatorStart(event.value, context, time)
      [] event.type = "Vote" -> CoordinatorVote(event.vote, context, time)
      [] event.type = "Alarm" -> CoordinatorAlarm(context, time)
      [] event.type = "Deliver" /\ event.msg.type = "VoteResponse" ->
            CoordinatorVoteResponse(event.from, event.msg.epoch, event.msg.vote,
                                    context, time)
      [] event.type = "Deliver" /\ event.msg.type = "DecisionRequest" ->
            CoordinatorDecisionRequest(event.from, event.msg.epoch, context)
      [] event.type = "Deliver" /\ event.msg.type = "DecisionAck" ->
            CoordinatorDecisionAck(event.from, event.msg.epoch, context)

(***************************************************************************)
(* Participant algorithm.                                                  *)
(***************************************************************************)
\* Fault injection: an Alarm without a pending timer is ignored, not refused.
ParticipantAlarmLenient(context, time) ==
    IF context.state.kind = "Voted"
       /\ time > context.state.start + DECISION_TIMEOUT_SECONDS
    THEN LET others == SelectSeq(context.participant_processes,
                                 LAMBDA p : p # context.this_process)
             SendDecisionRequest(p) ==
                 SendMessage(p, DecisionRequest(context.epoch))
             new_context == [context EXCEPT !.state =
                                Voted(context.state.vote, time)]
         IN  Ok(MapSeq(others, SendDecisionRequest)
                \o <<SendDecisionRequest(context.coordinator)>>
                \o <<Update(new_context, time + DECISION_TIMEOUT_SECONDS)>>)
    ELSE Ok(<<>>)

\* Fault injection: the DecisionRequest goes to every listed process, this
\* process included.
ParticipantAlarmToSelf(context, time) ==
    IF context.state.kind = "Voted"
    THEN IF time > context.state.start + DECISION_TIMEOUT_SECONDS
         THEN LET SendDecisionRequest(p) ==
                      SendMessage(p, DecisionRequest(context.epoch))
                  new_context ==
                      [context EXCEPT !.state =
                          Voted(context.state.vote, time)]
              IN  Ok(MapSeq(context.participant_processes, SendDecisionRequest)
                     \o <<SendDecisionRequest(context.coordinator)>>
                     \o <<Update(new_context, time + DECISION_TIMEOUT_SECONDS)>>)
         ELSE Ok(<<>>)
    ELSE Err("InvalidState")

ParticipantAlarm(context, time) ==
    IF context.state.kind = "Voted"
    THEN IF time > context.state.start + DECISION_TIMEOUT_SECONDS
         THEN LET others == SelectSeq(context.participant_processes,
                                      LAMBDA p : p # context.this_process)
                  SendDecisionRequest(p) ==
                      SendMessage(p, DecisionRequest(context.epoch))
                  new_decision_timeout_start == time
                  new_decision_timeout_end ==
                      new_decision_timeout_start + DECISION_TIMEOUT_SECONDS
                  new_context ==
                      [context EXCEPT !.state =
                          Voted(context.state.vote, new_decision_timeout_start)]
              IN  Ok(MapSeq(others, SendDecisionRequest)
                     \o <<SendDecisionRequest(context.coordinator)>>
                     \o <<Update(new_context, new_decision_timeout_end)>>)
         ELSE Ok(<<>>)
    ELSE Err("InvalidState")

\* Fault injection: a VoteRequest is accepted from any sender.
ParticipantVoteRequestAnySender(process, epoch, value, context) ==
    IF context.epoch # epoch
    THEN Ok(<<MessageDropped("epoch is not the current epoch")>>)
    ELSE IF context.state.kind # "WaitingForVoteRequest"
    THEN Ok(<<MessageDropped("context state is not WaitingForVoteRequest")>>)
    ELSE Ok(<<Update([context EXCEPT !.state = WaitingForVote], NoneV),
              RequestForVoteValue(value)>>)

ParticipantVoteRequest(process, epoch, value, context) ==
    IF context.coordinator # process
    THEN Ok(<<MessageDropped("sender process is not the coordinator")>>)
    ELSE IF context.epoch # epoch
    THEN Ok(<<MessageDropped("epoch is not the current epoch")>>)
    ELSE IF context.state.kind # "WaitingForVoteRequest"
    THEN Ok(<<MessageDropped("context state is not WaitingForVoteRequest")>>)
    ELSE Ok(<<Update([context EXCEPT !.state = WaitingForVote], NoneV),
              RequestForVoteValue(value)>>)

\* Fault injection: a Commit is accepted whatever its epoch.
ParticipantCommitAnyEpoch(epoch, context) ==
    IF context.state.kind # "Voted"
    THEN Ok(<<MessageDropped("commit received outside decision window")>>)
    ELSE Ok(<<Update([context EXCEPT !.state = Commit], NoneV)>>)

\* Fault injection: a Commit of the current epoch is also accepted by a
\* participant that has aborted.
ParticipantCommitAfterAbort(epoch, context) ==
    IF context.epoch # epoch
    THEN Ok(<<MessageDropped("epoch is not the current epoch")>>)
    ELSE IF context.state.kind \notin {"Voted", "Abort"}
    THEN Ok(<<MessageDropped("commit received outside decision window")>>)
    ELSE Ok(<<Update([context EXCEPT !.state = Commit], NoneV)>>)

ParticipantCommit(epoch, context) ==
    IF context.epoch # epoch
    THEN Ok(<<MessageDropped("epoch is not the current epoch")>>)
    ELSE IF context.state.kind # "Voted"
    THEN Ok(<<MessageDropped("commit received outside decision window")>>)
    ELSE Ok(<<Update([context EXCEPT !.state = Commit], NoneV)>>)

ParticipantAbort(epoch, context) ==
    IF context.epoch # epoch
    THEN Ok(<<MessageDropped("epoch is not the current epoch")>>)
    ELSE IF context.state.kind # "Voted"
    THEN Ok(<<MessageDropped("abort received outside decision window")>>)
    ELSE Ok(<<Update([context EXCEPT !.state = Abort], NoneV)>>)

\* The sender check of the participant's DecisionRequest handler:
\* !(participant_processes().contains(&process) && *coordinator() != process)
ParticipantRejectsSender(context, process) ==
    ~(/\ process \in SeqToSet(context.participant_processes)
      /\ context.coordinator # process)

\* Fault injection: the participant answers Abort for its current epoch too.
ParticipantDecisionRequestEager(process, epoch, context) ==
    IF ParticipantRejectsSender(context, process)
    THEN Ok(<<MessageDropped("sender process is not a coordinator or participant")>>)
    ELSE IF epoch = context.last_commit_epoch
    THEN Ok(<<SendMessage(process, CommitMsg(epoch))>>)
    ELSE IF /\ epoch <= context.epoch
            /\ \/ epoch > context.last_commit_epoch
               \/ ~IsSome(context.last_commit_epoch)
    THEN Ok(<<SendMessage(process, AbortMsg(epoch))>>)
    ELSE Ok(<<MessageDropped("decision for requested epoch is unknown")>>)

ParticipantDecisionRequest(process, epoch, context) ==
    IF ParticipantRejectsSender(context, process)
    THEN Ok(<<MessageDropped("sender process is not a coordinator or participant")>>)
    ELSE IF epoch = context.last_commit_epoch
    THEN Ok(<<SendMessage(process, CommitMsg(epoch))>>)
    ELSE IF /\ epoch < context.epoch
            /\ \/ epoch > context.last_commit_epoch
               \/ ~IsSome(context.last_commit_epoch)
    THEN Ok(<<SendMessage(process, AbortMsg(epoch))>>)
    ELSE Ok(<<MessageDropped("decision for requested epoch is unknown")>>)

\* Fault injection: the VoteResponse is pushed before the Update.
ParticipantVoteSendFirst(vote, context, time) ==
    IF context.state.kind # "WaitingForVote"
    THEN Err("InvalidState")
    ELSE LET respond ==
                 <<SendMessage(context.coordinator,
                               VoteResponse(context.epoch, vote))>>
         IN  IF vote
             THEN Ok(respond
                     \o <<Update([context EXCEPT !.state = Voted(vote, time)],
                                 time + DECISION_TIMEOUT_SECONDS)>>)
             ELSE Ok(respond
                     \o <<Update([context EXCEPT !.state = Abort], NoneV)>>)

ParticipantVote(vote, context, time) ==
    IF context.state.kind # "WaitingForVote"
    THEN Err("InvalidState")
    ELSE LET decision_timeout_start == time
             decision_timeout_end ==
                 decision_timeout_start + DECISION_TIMEOUT_SECONDS
             respond ==
                 <<SendMessage(context.coordinator,
                               VoteResponse(context.epoch, vote))>>
         IN  IF vote
             THEN Ok(<<Update([context EXCEPT !.state =
                                  Voted(vote, decision_timeout_start)],
                              decision_timeout_end)>> \o respond)
             ELSE Ok(<<Update([context EXCEPT !.state = Abort], NoneV)>>
                     \o respond)

ParticipantMessages == {"VoteRequest", "Commit", "Abort", "DecisionRequest"}

ParticipantEvent(event, context, time) ==
    CASE event.type = "Alarm" -> ParticipantAlarm(context, time)
      [] event.type = "Vote" -> ParticipantVote(event.vote, context, time)
      [] event.type = "Deliver" /\ event.msg.type = "VoteRequest" ->
            ParticipantVoteRequest(event.from, event.msg.epoch, event.msg.value,
                                   context)
      [] event.type = "Deliver" /\ event.msg.type = "Commit" ->
            ParticipantCommit(event.msg.epoch, context)
      [] event.type = "Deliver" /\ event.msg.type = "Abort" ->
            ParticipantAbort(event.msg.epoch, context)
      [] event.type = "Deliver" /\ event.msg.type = "DecisionRequest" ->
            ParticipantDecisionRequest(event.from, event.msg.epoch, context)

(***************************************************************************)
(* The embedder: it applies a returned action list in order.  The context  *)
(* of the last Update becomes the durable context, the alarm of the last   *)
(* Update is the alarm in force, every SendMessage is handed to the        *)
(* network.                                                                *)
(***************************************************************************)
IsUpdate(a) == a.type = "Update"
IsSend(a) == a.type = "SendMessage"
IsNotify(a) == a.type = "Notify"
IsDecisionMsg(a) == IsSend(a) /\ a.msg.type \in {"Commit", "Abort"}
UpdateIndices(actions) == {i \in 1..Len(actions) : IsUpdate(actions[i])}
Max(S) == CHOOSE x \in S : \A y \in S : y <= x

LastContext(context, actions) ==
    IF UpdateIndices(actions) = {} THEN context
    ELSE actions[Max(UpdateIndices(actions))].context

TimerAfter(timer, actions) ==
    IF UpdateIndices(actions) = {} THEN timer
    ELSE actions[Max(UpdateIndices(actions))].alarm

Sent(from, actions) ==
    {[from |-> from, to |-> actions[i].to, msg |-> actions[i].msg] :
        i \in {j \in 1..Len(actions) : IsSend(actions[j])}}

EpochBounded(actions) ==
    \A i \in UpdateIndices(actions) : actions[i].context.epoch <= MaxEpoch

\* History: the decisions recorded by Updates, the decision messages the
\* coordinator announced, the yes votes recorded by the coordinator's Updates.
DecisionsIn(process, actions) ==
    {[process |-> process, epoch |-> actions[i].context.epoch,
      decision |-> actions[i].context.state.kind] :
        i \in {j \in UpdateIndices(actions) :
                  actions[j].context.state.kind \in {"Commit", "Abort"}}}

DecisionMsgsIn(actions) ==
    {[type |-> actions[i].msg.type, epoch |-> actions[i].msg.epoch] :
        i \in {j \in 1..Len(actions) : IsDecisionMsg(actions[j])}}

YesVotesOf(context) ==
    {<<context.participants[i].process, context.epoch>> :
        i \in {j \in 1..Len(context.participants) :
                  context.participants[j].vote = VoteSome(TRUE)}}

YesVotesIn(actions) ==
    UNION {YesVotesOf(actions[i].context) : i \in UpdateIndices(actions)}

NoCall == [role |-> "none"]
Call(role, process, event, context, result) ==
    [role |-> role, process |-> process, event |-> event, context |-> context,
     time |-> now, result |-> result, yesBefore |-> yesRecorded,
     sentBefore |-> decisionSent]

IsDecisionRequestEvent(event) ==
    event.type = "Deliver" /\ event.msg.type = "DecisionRequest"

\* One call of the coordinator engine, its Updates applied.
CoordinatorStep(event) ==
    LET result == CoordinatorEvent(event, cctx, now) IN
    /\ EpochBounded(result.actions)
    /\ lastCall' = Call("coordinator", Coord, event, cctx, result)
    /\ cctx' = LastContext(cctx, result.actions)
    /\ ctimer' = TimerAfter(IF event.type = "Alarm" THEN NoneV ELSE ctimer,
                            result.actions)
    /\ UNCHANGED <<builderVars, unifiedVars>>

\* One call of the engine of participant p, its Updates applied.
ParticipantStep(p, event) ==
    LET result == ParticipantEvent(event, pctx[p], now) IN
    /\ EpochBounded(result.actions)
    /\ lastCall' = Call("participant", p, event, pctx[p], result)
    /\ pctx' = [pctx EXCEPT ![p] = LastContext(pctx[p], result.actions)]
    /\ ptimer' = [ptimer EXCEPT ![p] =
                    TimerAfter(IF event.type = "Alarm" THEN NoneV ELSE ptimer[p],
                               result.actions)]
    /\ UNCHANGED <<builderVars, unifiedVars>>

SysCoordinator(event) ==
    LET actions == CoordinatorEvent(event, cctx, now).actions IN
    /\ CoordinatorStep(event)
    /\ net' = net \cup Sent(Coord, actions)
    /\ decisions' = decisions \cup DecisionsIn(Coord, actions)
    /\ decisionSent' = IF IsDecisionRequestEvent(event) THEN decisionSent
                       ELSE decisionSent \cup DecisionMsgsIn(actions)
    /\ yesRecorded' = yesRecorded \cup YesVotesIn(actions)
    /\ UNCHANGED <<pctx, ptimer, now>>

SysParticipant(p, event) ==
    LET actions == ParticipantEvent(event, pctx[p], now).actions IN
    /\ ParticipantStep(p, event)
    /\ net' = net \cup Sent(p, actions)
    /\ decisions' = decisions \cup DecisionsIn(p, actions)
    /\ UNCHANGED <<cctx, ctimer, now, decisionSent, yesRecorded>>

(***************************************************************************)
(* Spec: one coordinator and its participants from epoch-0 contexts.       *)
(***************************************************************************)
ParticipantLists == {<<P1>>, <<P1, P2>>}

Init ==
    \E ps \in ParticipantLists :
        /\ cctx = CoordinatorContext(NoneV, Coord, 0, NoneV, Coord,
                                     MapSeq(ps, Participant), WaitingForStart)
        /\ ctimer = NoneV
        /\ pctx = [p \in SeqToSet(ps) |->
                      ParticipantContext(NoneV, Coord, 0, NoneV, p, ps,
                                         WaitingForVoteRequest)]
        /\ ptimer = [p \in SeqToSet(ps) |-> NoneV]
        /\ net = {}
        /\ now = 0
        /\ lastCall = NoCall
        /\ decisions = {}
        /\ decisionSent = {}
        /\ yesRecorded = {}
        /\ builder = NoBuilder
        /\ built = NotBuilt
        /\ uctx = NoUnified
        /\ utimer = NoUnified

\* The embedder answers RequestForStart with a Start event.
Start ==
    /\ cctx.state.kind = "WaitingForStart"
    /\ \E v \in Values : SysCoordinator(StartEv(v))

\* The embedder answers the coordinator's RequestForVote with a Vote event.
CoordinatorVoteEvent ==
    /\ cctx.state.kind = "WaitingForVote"
    /\ \E b \in BOOLEAN : SysCoordinator(VoteEv(b))

\* The alarm in force has expired: exactly one Alarm event is delivered.
CoordinatorAlarmEvent ==
    /\ IsSome(ctimer)
    /\ now >= ctimer
    /\ SysCoordinator(AlarmEv)

CoordinatorDeliver ==
    \E m \in net :
        /\ m.to = Coord
        /\ m.msg.type \in CoordinatorMessages
        /\ SysCoordinator(Deliver(m.from, m.msg))

ParticipantVoteEvent ==
    \E p \in DOMAIN pctx :
        /\ pctx[p].state.kind = "WaitingForVote"
        /\ \E b \in BOOLEAN : SysParticipant(p, VoteEv(b))

ParticipantAlarmEvent ==
    \E p \in DOMAIN pctx :
        /\ IsSome(ptimer[p])
        /\ now >= ptimer[p]
        /\ SysParticipant(p, AlarmEv)

ParticipantDeliver ==
    \E p \in DOMAIN pctx : \E m \in net :
        /\ m.to = p
        /\ m.msg.type \in ParticipantMessages
        /\ SysParticipant(p, Deliver(m.from, m.msg))

\* The engine never emits DecisionAck; the participant's embedder sends it
\* once its durable context holds the decision of the epoch.
EmbedderDecisionAck ==
    \E p \in DOMAIN pctx :
        /\ pctx[p].state.kind \in {"Commit", "Abort"}
        /\ net' = net \cup {[from |-> p, to |-> Coord,
                              msg |-> DecisionAck(pctx[p].epoch)]}
        /\ net' # net
        /\ UNCHANGED <<cctx, ctimer, pctx, ptimer, now, lastCall,
                       decisions, decisionSent, yesRecorded, builderVars, unifiedVars>>

\* TimeSource::now() advances, to the deadline of an armed alarm or just
\* past it (the engines compare the clock with nothing else).
ArmedAlarms ==
    {t \in {ctimer} \cup {ptimer[p] : p \in DOMAIN ptimer} : IsSome(t)}

Tick ==
    /\ \E t \in ArmedAlarms : \E n \in {t, t + 1} :
            /\ n > now
            /\ n <= MaxTime
            /\ now' = n
    /\ UNCHANGED <<cctx, ctimer, pctx, ptimer, net, lastCall,
                   decisions, decisionSent, yesRecorded, builderVars, unifiedVars>>

Next ==
    \/ Start
    \/ CoordinatorVoteEvent
    \/ CoordinatorAlarmEvent
    \/ CoordinatorDeliver
    \/ ParticipantVoteEvent
    \/ ParticipantAlarmEvent
    \/ ParticipantDeliver
    \/ EmbedderDecisionAck
    \/ Tick

Spec == Init /\ [][Next]_vars

(***************************************************************************)
(* EngineSpec: the engines as pure functions.  Init loads one engine with  *)
(* a context the builder can produce (any epoch, any last_commit_epoch,    *)
(* any state of the role, participants created by Participant::new) and    *)
(* fixes the clock reading; the actions feed it every event of its         *)
(* alphabet, from every sender and for every epoch, and apply the Updates. *)
(* The coordinator engine is the one under test when no participant        *)
(* context is loaded.                                                      *)
(***************************************************************************)
OptionEpochs == {NoneV} \cup Epochs

CoordinatorStates ==
    {Abort, Commit, Voting(0), WaitingForDecisionAck(0), WaitingForStart,
     WaitingForVote}
ParticipantStates ==
    {Abort, Commit, Voted(TRUE, 0), Voted(FALSE, 0), WaitingForVoteRequest,
     WaitingForVote}

EngineCoordinatorLists == {<< >>, <<P1>>, <<P1, P2>>}
EngineParticipantLists == {<<P1>>, <<P1, P2>>, <<Coord, P1, P2>>}

\* Senders of delivered messages: listed participants and a stranger for the
\* coordinator; the coordinator, a peer and a stranger for participant P1.
CoordinatorSenders == {P1, P2, Outsider}
ParticipantSenders == {Coord, P2, Outsider}

\* The alarm a context arrives with: the deadline of its state's timeout.
TimeoutOf(state) ==
    CASE state.kind = "Voting" -> state.start + VOTE_TIMEOUT_SECONDS
      [] state.kind = "WaitingForDecisionAck" -> state.start + ACK_TIMEOUT_SECONDS
      [] state.kind = "Voted" -> state.start + DECISION_TIMEOUT_SECONDS
      [] OTHER -> NoneV

\* The clock readings of a run: the instant the state was entered, the
\* deadline of its timeout and the instant after it.
EngineTimes(state) ==
    IF IsSome(TimeoutOf(state))
    THEN {state.start, TimeoutOf(state), TimeoutOf(state) + 1}
    ELSE {0}

CoordinatorEvents ==
    {StartEv(v) : v \in Values} \cup {VoteEv(b) : b \in BOOLEAN} \cup {AlarmEv}
    \cup {Deliver(p, m) : p \in CoordinatorSenders,
            m \in {VoteResponse(e, b) : e \in Epochs, b \in BOOLEAN}
                  \cup {DecisionRequest(e) : e \in Epochs}
                  \cup {DecisionAck(e) : e \in Epochs}}

ParticipantEvents ==
    {VoteEv(b) : b \in BOOLEAN} \cup {AlarmEv}
    \cup {Deliver(p, m) : p \in ParticipantSenders,
            m \in {VoteRequest(e, v) : e \in Epochs, v \in Values}
                  \cup {CommitMsg(e) : e \in Epochs}
                  \cup {AbortMsg(e) : e \in Epochs}
                  \cup {DecisionRequest(e) : e \in Epochs}}

EngineInit ==
    /\ net = {}
    /\ lastCall = NoCall
    /\ decisions = {}
    /\ decisionSent = {}
    /\ yesRecorded = {}
    /\ builder = NoBuilder
    /\ built = NotBuilt
    /\ uctx = NoUnified
    /\ utimer = NoUnified
    /\ \/ /\ \E e \in Epochs, l \in OptionEpochs, st \in CoordinatorStates,
                ps \in EngineCoordinatorLists :
                /\ cctx = CoordinatorContext(NoneV, Coord, e, l, Coord,
                                             MapSeq(ps, Participant), st)
                /\ ctimer = TimeoutOf(st)
                /\ now \in EngineTimes(st)
          /\ pctx = << >>
          /\ ptimer = << >>
       \/ /\ cctx = CoordinatorContext(NoneV, Coord, 0, NoneV, Coord, << >>,
                                       WaitingForStart)
          /\ ctimer = NoneV
          /\ \E e \in Epochs, l \in OptionEpochs, st \in ParticipantStates,
                ps \in EngineParticipantLists :
                /\ pctx = [p \in {P1} |->
                              ParticipantContext(NoneV, Coord, e, l, P1, ps, st)]
                /\ ptimer = [p \in {P1} |-> TimeoutOf(st)]
                /\ now \in EngineTimes(st)

EngineCoordinator ==
    /\ lastCall = NoCall
    /\ DOMAIN pctx = {}
    /\ \E event \in CoordinatorEvents : CoordinatorStep(event)
    /\ UNCHANGED <<pctx, ptimer, net, now, decisions, decisionSent, yesRecorded>>

EngineParticipant ==
    /\ lastCall = NoCall
    /\ \E p \in DOMAIN pctx : \E event \in ParticipantEvents :
            ParticipantStep(p, event)
    /\ UNCHANGED <<cctx, ctimer, net, now, decisions, decisionSent, yesRecorded>>

\* The embedder has consumed the returned action list and is ready to feed
\* the next event.
EngineReturn ==
    /\ lastCall # NoCall
    /\ lastCall' = NoCall
    /\ UNCHANGED <<cctx, ctimer, pctx, ptimer, net, now, decisions,
                   decisionSent, yesRecorded, builderVars, unifiedVars>>

EngineNext ==
    \/ EngineCoordinator
    \/ EngineParticipant
    \/ EngineReturn

EngineSpec == EngineInit /\ [][EngineNext]_vars

(***************************************************************************)
(* Properties.                                                             *)
(***************************************************************************)
CoordinatorCalled == lastCall.role = "coordinator"
ParticipantCalled == lastCall.role = "participant"
Returned == lastCall.result.actions
Prefix(actions, i) == SubSeq(actions, 1, i - 1)

\* C1 -- Agreement (AC1): no two processes record different decisions (Update
\* to state Commit against Update to state Abort) for the same epoch.
C1_Agreement ==
    \A d1 \in decisions : \A d2 \in decisions :
        d1.epoch = d2.epoch => d1.decision = d2.decision

\* C2 -- Once the coordinator has announced Commit(e) (resp. Abort(e)), every
\* later DecisionRequest(e) it answers with a SendMessage is answered with
\* Commit(e) (resp. Abort(e)).
C2_AnswersMatchDecision ==
    (CoordinatorCalled /\ IsDecisionRequestEvent(lastCall.event)) =>
        \A i \in 1..Len(Returned) :
            IsDecisionMsg(Returned[i]) =>
                \A sent \in lastCall.sentBefore :
                    sent.epoch = Returned[i].msg.epoch =>
                        sent.type = Returned[i].msg.type

\* The coordinator decides Commit at position i of the returned list: an
\* Update to state Commit, or a Commit message that announces the decision.
DecidesCommitAt(i) ==
    \/ IsUpdate(Returned[i]) /\ Returned[i].context.state.kind = "Commit"
    \/ /\ ~IsDecisionRequestEvent(lastCall.event)
       /\ IsSend(Returned[i])
       /\ Returned[i].msg.type = "Commit"

\* C3 -- Commit validity (AC2): whenever the coordinator emits an Update with
\* state Commit for epoch e, or announces Commit(e), an earlier Update of its
\* action stream recorded vote == Some(true) in epoch e for every participant
\* of its list.
C3_CommitValidity ==
    CoordinatorCalled =>
        \A i \in 1..Len(Returned) :
            DecidesCommitAt(i) =>
                \A k \in 1..Len(lastCall.context.participants) :
                    <<lastCall.context.participants[k].process,
                      lastCall.context.epoch>>
                        \in lastCall.yesBefore
                            \cup YesVotesIn(Prefix(Returned, i))

\* C3 witness: a coordinator with two participants has decided Commit.
C3_Witness ==
    /\ CoordinatorCalled
    /\ Len(lastCall.context.participants) = 2
    /\ \E i \in 1..Len(Returned) : DecidesCommitAt(i)

\* The context the embedder holds after the last call, for either role.
ContextAfter ==
    IF CoordinatorCalled THEN cctx ELSE pctx[lastCall.process]

\* C4 -- Monotone epoch: every Update returned by either engine carries the
\* epoch of the input context or exactly one more, the epochs of the Updates
\* of one list never decrease, and so the applied context's epoch is the old
\* one or its successor.
C4_MonotoneEpoch ==
    (CoordinatorCalled \/ ParticipantCalled) =>
        /\ \A i \in UpdateIndices(Returned) :
              /\ Returned[i].context.epoch - lastCall.context.epoch \in {0, 1}
              /\ \A j \in UpdateIndices(Returned) :
                    j < i => Returned[j].context.epoch <= Returned[i].context.epoch
        /\ ContextAfter.epoch - lastCall.context.epoch \in {0, 1}

\* C4 witness: a call has returned an Update that advances the epoch by one.
C4_Witness ==
    /\ CoordinatorCalled
    /\ \E i \in UpdateIndices(Returned) :
          Returned[i].context.epoch = lastCall.context.epoch + 1
    /\ cctx.epoch = lastCall.context.epoch + 1

\* The advance of the last coordinator call: the Update that raises the epoch.
AdvanceIndices ==
    {i \in UpdateIndices(Returned) :
        Returned[i].context.epoch = lastCall.context.epoch + 1}

CoordinatorCommitted(epoch) ==
    [process |-> Coord, epoch |-> epoch, decision |-> "Commit"] \in decisions

\* C5 -- last_commit_epoch tracking: an advance from e to e+1 after the
\* coordinator decided Commit for e carries last_commit_epoch == Some(e); an
\* advance after an Abort decision leaves last_commit_epoch unchanged.
C5_LastCommitEpoch ==
    CoordinatorCalled =>
        \A i \in AdvanceIndices :
            IF CoordinatorCommitted(lastCall.context.epoch)
            THEN Returned[i].context.last_commit_epoch = lastCall.context.epoch
            ELSE Returned[i].context.last_commit_epoch
                    = lastCall.context.last_commit_epoch

\* The Update at index j records the decision that the message at index i
\* announces, or a state that follows it in the same epoch.
RecordsDecisionOf(actions, j, i) ==
    /\ IsUpdate(actions[j])
    /\ actions[j].context.state.kind
          \in {actions[i].msg.type, "WaitingForDecisionAck"}

DecisionSendsOrdered(actions) ==
    \A i \in 1..Len(actions) :
        IsDecisionMsg(actions[i]) =>
            \E j \in 1..(i - 1) : RecordsDecisionOf(actions, j, i)

\* C6 -- Action ordering: in every action list returned by either engine, for
\* every event (Deliver of DecisionRequest included), each SendMessage of
\* Commit(e) or Abort(e) is preceded in the list by an Update whose state is
\* that decision or a later state.
C6_DecisionSendsOrdered ==
    (CoordinatorCalled \/ ParticipantCalled) => DecisionSendsOrdered(Returned)

\* C6 as the code has it: the ordering holds for every event other than the
\* delivery of a DecisionRequest; the answer to a DecisionRequest is a list of
\* one action with no Update, the decision it reports being read from the
\* stored context.
C6_DecisionSendsOrderedOutsideLookup ==
    (CoordinatorCalled \/ ParticipantCalled) =>
        IF IsDecisionRequestEvent(lastCall.event)
        THEN Len(Returned) = 1 /\ UpdateIndices(Returned) = {}
        ELSE DecisionSendsOrdered(Returned)

\* C6 witness: a call other than a DecisionRequest delivery has returned a
\* list that sends an Abort after recording it.
C6_Witness ==
    /\ CoordinatorCalled
    /\ ~IsDecisionRequestEvent(lastCall.event)
    /\ \E i \in 1..Len(Returned) :
          /\ IsDecisionMsg(Returned[i])
          /\ Returned[i].msg.type = "Abort"
          /\ \E j \in 1..(i - 1) : RecordsDecisionOf(Returned, j, i)

\* A message the receiving role filters by epoch.
EpochFiltered(role, msg) ==
    \/ role = "coordinator" /\ msg.type \in {"VoteResponse", "DecisionAck"}
    \/ role = "participant" /\ msg.type \in {"Commit", "Abort"}

\* The last call delivered an epoch-filtered message of another epoch.
StaleDelivery ==
    /\ CoordinatorCalled \/ ParticipantCalled
    /\ lastCall.event.type = "Deliver"
    /\ EpochFiltered(lastCall.role, lastCall.event.msg)
    /\ lastCall.event.msg.epoch # lastCall.context.epoch

Listed(context, process) ==
    \E i \in 1..Len(context.participants) :
        context.participants[i].process = process

\* C7 -- Epoch filter: in every state, a VoteResponse(e, _) or DecisionAck(e)
\* delivered to the coordinator, or a Commit(e) or Abort(e) delivered to a
\* participant, with e other than the context's epoch returns Ok with exactly
\* one action, a Notify(MessageDropped), hence no Update and no SendMessage;
\* for a VoteResponse from a listed participant the reason is "epoch is not
\* the current epoch".
C7_EpochFilter ==
    StaleDelivery =>
        /\ lastCall.result.ok
        /\ Len(Returned) = 1
        /\ IsNotify(Returned[1])
        /\ Returned[1].kind = "MessageDropped"
        /\ ContextAfter = lastCall.context
        /\ (/\ CoordinatorCalled
            /\ lastCall.event.msg.type = "VoteResponse"
            /\ Listed(lastCall.context, lastCall.event.from))
              => Returned[1].reason = "epoch is not the current epoch"

\* C7 witness: a participant that has voted receives a Commit of another
\* epoch and drops it.
C7_Witness ==
    /\ StaleDelivery
    /\ ParticipantCalled
    /\ lastCall.context.state.kind = "Voted"
    /\ lastCall.event.msg.type = "Commit"
    /\ Returned[1].reason = "epoch is not the current epoch"

\* A listed participant's VoteResponse of another epoch reaches a coordinator
\* that is collecting votes.
C7_StaleVoteWitness ==
    /\ StaleDelivery
    /\ CoordinatorCalled
    /\ lastCall.context.state.kind = "Voting"
    /\ lastCall.event.msg.type = "VoteResponse"
    /\ Listed(lastCall.context, lastCall.event.from)

\* The last call delivered a DecisionRequest.
DecisionRequestCalled ==
    /\ CoordinatorCalled \/ ParticipantCalled
    /\ IsDecisionRequestEvent(lastCall.event)

\* The engine of the last call's role, called again with the same event on
\* the context the embedder now holds, with the clock reading time.
Replay(time) ==
    IF CoordinatorCalled
    THEN CoordinatorEvent(lastCall.event, ContextAfter, time)
    ELSE ParticipantEvent(lastCall.event, ContextAfter, time)

SenderAccepted ==
    IF CoordinatorCalled
    THEN ~CoordinatorRejectsSender(lastCall.context.participants,
                                   lastCall.event.from)
    ELSE ~ParticipantRejectsSender(lastCall.context, lastCall.event.from)

\* The answer the decision lookup prescribes: "Commit", "Abort" or "Dropped".
LookupAnswer(e, epoch, last_commit_epoch) ==
    IF last_commit_epoch = e THEN "Commit"
    ELSE IF e < epoch /\ (~IsSome(last_commit_epoch) \/ last_commit_epoch < e)
    THEN "Abort"
    ELSE "Dropped"

\* The answer an action list of one action gives.
AnswerOf(actions) ==
    IF Len(actions) = 1 /\ IsDecisionMsg(actions[1]) THEN actions[1].msg.type
    ELSE IF /\ Len(actions) = 1
            /\ IsNotify(actions[1])
            /\ actions[1].kind = "MessageDropped"
    THEN "Dropped"
    ELSE "Other"

\* C9 -- Decision lookup: for a DecisionRequest(e) that passes sender
\* validation, on the coordinator and on a participant alike, the single
\* action is SendMessage(sender, Commit(e)) if last_commit_epoch = Some(e),
\* else SendMessage(sender, Abort(e)) if e < epoch and last_commit_epoch is
\* None or below e, else a MessageDropped; nothing else of the context or the
\* role changes the answer.
C9_DecisionLookup ==
    (DecisionRequestCalled /\ SenderAccepted) =>
        LET e == lastCall.event.msg.epoch
            answer == LookupAnswer(e, lastCall.context.epoch,
                                   lastCall.context.last_commit_epoch)
        IN  /\ lastCall.result.ok
            /\ AnswerOf(Returned) = answer
            /\ answer \in {"Commit", "Abort"} =>
                  /\ Returned[1].to = lastCall.event.from
                  /\ Returned[1].msg.epoch = e

\* C9 witness: a participant at epoch 2 whose last commit is epoch 0 answers
\* a DecisionRequest(1) with Abort(1).
C9_Witness ==
    /\ DecisionRequestCalled
    /\ ParticipantCalled
    /\ SenderAccepted
    /\ lastCall.context.epoch = 2
    /\ lastCall.context.last_commit_epoch = 0
    /\ lastCall.event.msg.epoch = 1
    /\ AnswerOf(Returned) = "Abort"

\* C10 -- Coordinator sender validation: for any participant list, the
\* coordinator answers a DecisionRequest from process p by the decision lookup
\* if and only if p is in the list, and drops it with "sender process is not a
\* participant" if and only if p is not in the list.
C10_CoordinatorSenderValidation ==
    (CoordinatorCalled /\ IsDecisionRequestEvent(lastCall.event)) =>
        LET listed == Listed(lastCall.context, lastCall.event.from)
            dropped ==
                Returned = <<MessageDropped("sender process is not a participant")>>
        IN  /\ dropped <=> ~listed
            /\ listed =>
                  AnswerOf(Returned)
                      = LookupAnswer(lastCall.event.msg.epoch,
                                     lastCall.context.epoch,
                                     lastCall.context.last_commit_epoch)

\* C11 -- Participant sender validation: a participant processes a
\* DecisionRequest(e) from process p, instead of dropping it for its sender,
\* if and only if p is in its participant-process list or p is the
\* coordinator; a DecisionRequest from the coordinator is accepted.
C11_ParticipantSenderValidation ==
    (ParticipantCalled /\ IsDecisionRequestEvent(lastCall.event)) =>
        LET p == lastCall.event.from
            allowed ==
                \/ p \in SeqToSet(lastCall.context.participant_processes)
                \/ p = lastCall.context.coordinator
            dropped ==
                Returned = <<MessageDropped(
                    "sender process is not a coordinator or participant")>>
        IN  dropped <=> ~allowed

(***************************************************************************)
(* FairSpec: the system of Spec under a fair embedder and fair links, also *)
(* started from the moment after a decision whose messages were lost.      *)
(***************************************************************************)
DecisionStates == {Commit, Abort}

\* The coordinator has decided for epoch 0 with every participant's yes vote
\* recorded and waits for the acks; every participant has voted yes and waits
\* for the decision; the messages sent so far are consumed or lost.
LostDecisionInit ==
    \E ps \in ParticipantLists : \E d \in DecisionStates :
        LET voted(p) == [Participant(p) EXCEPT !.vote = VoteSome(TRUE)] IN
        /\ cctx = CoordinatorContext(NoneV, Coord, 0, NoneV, Coord,
                                     MapSeq(ps, voted), WaitingForDecisionAck(0))
        /\ ctimer = ACK_TIMEOUT_SECONDS
        /\ pctx = [p \in SeqToSet(ps) |->
                      ParticipantContext(NoneV, Coord, 0, NoneV, p, ps,
                                         Voted(TRUE, 0))]
        /\ ptimer = [p \in SeqToSet(ps) |-> DECISION_TIMEOUT_SECONDS]
        /\ net = {}
        /\ now = 0
        /\ lastCall = NoCall
        /\ decisions = {[process |-> Coord, epoch |-> 0, decision |-> d.kind]}
        /\ decisionSent = {[type |-> d.kind, epoch |-> 0]}
        /\ yesRecorded = {<<p, 0>> : p \in SeqToSet(ps)}
        /\ builder = NoBuilder
        /\ built = NotBuilt
        /\ uctx = NoUnified
        /\ utimer = NoUnified

FairInit == Init \/ LostDecisionInit

\* Every message a process of the system can send to another: the
\* coordinator's requests and decisions, a participant's votes, acks and
\* DecisionRequests, and a participant's answers to a peer.
Links ==
    LET Decision == {CommitMsg(e) : e \in Epochs} \cup {AbortMsg(e) : e \in Epochs}
        Request == {DecisionRequest(e) : e \in Epochs}
        FromCoordinator ==
            {VoteRequest(e, v) : e \in Epochs, v \in Values} \cup Decision
        ToCoordinator ==
            {VoteResponse(e, b) : e \in Epochs, b \in BOOLEAN} \cup Request
                \cup {DecisionAck(e) : e \in Epochs}
        Link(f, t, M) == {[from |-> f, to |-> t, msg |-> m] : m \in M}
    IN  UNION {Link(Coord, p, FromCoordinator) \cup Link(p, Coord, ToCoordinator)
                  \cup UNION {Link(p, q, Request \cup Decision) :
                                q \in {P1, P2} \ {p}} :
               p \in {P1, P2}}

\* The link hands message m to the engine of its addressee.
DeliverMessage(m) ==
    /\ m \in net
    /\ IF m.to = Coord
       THEN /\ m.msg.type \in CoordinatorMessages
            /\ SysCoordinator(Deliver(m.from, m.msg))
       ELSE /\ m.to \in DOMAIN pctx
            /\ m.msg.type \in ParticipantMessages
            /\ SysParticipant(m.to, Deliver(m.from, m.msg))

\* The embedder of participant p delivers its expired alarm.
AlarmOf(p) ==
    /\ p \in DOMAIN pctx
    /\ IsSome(ptimer[p])
    /\ now >= ptimer[p]
    /\ SysParticipant(p, AlarmEv)

\* The clock runs, the coordinator's embedder answers its requests, armed
\* alarms are delivered and the links are fair; whether a participant's
\* embedder ever votes or acknowledges is left open.
Fairness ==
    /\ WF_vars(Tick)
    /\ WF_vars(Start)
    /\ WF_vars(CoordinatorVoteEvent)
    /\ WF_vars(CoordinatorAlarmEvent)
    /\ \A p \in {P1, P2} : WF_vars(AlarmOf(p))
    /\ \A m \in Links : WF_vars(DeliverMessage(m))

FairSpec == FairInit /\ [][Next]_vars /\ Fairness

\* A participant's epoch is never changed by its engine.
ParticipantEpochFixed ==
    [][\A p \in DOMAIN pctx : pctx'[p].epoch = pctx[p].epoch]_vars

Decided(p, e) ==
    /\ p \in DOMAIN pctx
    /\ pctx[p].epoch = e
    /\ pctx[p].state.kind \in {"Commit", "Abort"}

Advanced(p, e) ==
    /\ p \in DOMAIN pctx
    /\ pctx[p].epoch = e + 1
    /\ pctx[p].state.kind = "WaitingForVoteRequest"

\* C12 -- Continuous operation: after a participant has recorded a decision
\* for epoch e (state Commit or Abort), a later Update moves it to epoch e+1
\* in state WaitingForVoteRequest, so that the coordinator's VoteRequest(e+1)
\* is accepted and epoch e+1 can be decided.
C12_ContinuousOperation ==
    \A p \in {P1, P2} : \A e \in 0..(MaxEpoch - 1) :
        [](Decided(p, e) => <>Advanced(p, e))

VotedYes(p) ==
    /\ p \in DOMAIN pctx
    /\ pctx[p].state.kind = "Voted"
    /\ pctx[p].state.vote

\* Participant p has voted yes in an epoch the coordinator has decided as d.
AwaitsDecision(p, d) ==
    /\ VotedYes(p)
    /\ [process |-> Coord, epoch |-> pctx[p].epoch, decision |-> d] \in decisions

HasRecorded(p, d) ==
    /\ p \in DOMAIN pctx
    /\ pctx[p].state.kind = d

\* C13 -- Termination protocol liveness: a participant that voted yes for
\* epoch e and whose Commit(e) or Abort(e) was lost eventually records the
\* decision the coordinator took for e, when the coordinator and the peers
\* stay up, armed alarms are delivered and every DecisionRequest and reply is
\* eventually delivered, with one, two or more participants.
C13_TerminationLiveness ==
    \A p \in {P1, P2} : \A d \in {"Commit", "Abort"} :
        [](AwaitsDecision(p, d) => <>HasRecorded(p, d))

\* The coordinator collects the votes of epoch e.
VotingAt(e) == cctx.state.kind = "Voting" /\ cctx.epoch = e

\* Some but not all participants have their vote recorded.
PartlyVoted ==
    /\ \E i \in 1..Len(cctx.participants) : cctx.participants[i].vote # VoteNone
    /\ \E i \in 1..Len(cctx.participants) : cctx.participants[i].vote = VoteNone

\* C14 -- Vote-timeout liveness: with an embedder that honours every
\* Update's alarm (Some(t) arms or replaces, None clears) and delivers one
\* Alarm once the alarm in force has expired, a coordinator that entered
\* Voting at epoch e eventually leaves Voting even if some participant never
\* votes, also when some but not all participants have voted.
C14_VoteTimeoutLiveness ==
    \A e \in Epochs : []((VotingAt(e) /\ PartlyVoted) => <>(~VotingAt(e)))

\* The last call returned Err(InvalidState) and not a single action.
RefusedInvalidState ==
    /\ ~lastCall.result.ok
    /\ lastCall.result.error = "InvalidState"
    /\ Returned = << >>
    /\ ContextAfter = lastCall.context

\* The last call was a Vote event in a state other than WaitingForVote.
VoteOutsideWindow ==
    /\ CoordinatorCalled \/ ParticipantCalled
    /\ lastCall.event.type = "Vote"
    /\ lastCall.context.state.kind # "WaitingForVote"

\* C15 -- A Vote(b) event given to the coordinator engine or the participant
\* engine in any state other than WaitingForVote returns Err(InvalidState)
\* and no action, so no Update, and the context is unchanged.
C15_VoteOutsideWindowRefused ==
    VoteOutsideWindow => RefusedInvalidState

\* C15 witness: a coordinator that is collecting votes is given Vote(true)
\* and refuses it.
C15_Witness ==
    /\ VoteOutsideWindow
    /\ CoordinatorCalled
    /\ lastCall.context.state.kind = "Voting"
    /\ lastCall.event.vote
    /\ RefusedInvalidState

\* The last call was an Alarm event given to a participant.
ParticipantAlarmCalled ==
    ParticipantCalled /\ lastCall.event.type = "Alarm"

\* C16 -- An Alarm given to the participant engine in state Abort, Commit,
\* WaitingForVote or WaitingForVoteRequest returns Err(InvalidState) with no
\* actions; only in state Voted does a participant Alarm return Ok.
C16_ParticipantAlarmRefused ==
    ParticipantAlarmCalled =>
        IF lastCall.context.state.kind = "Voted"
        THEN lastCall.result.ok
        ELSE /\ lastCall.context.state.kind
                    \in {"Abort", "Commit", "WaitingForVote", "WaitingForVoteRequest"}
             /\ RefusedInvalidState

\* C16 witness: a participant that waits for its embedder's vote is given an
\* Alarm and refuses it.
C16_Witness ==
    /\ ParticipantAlarmCalled
    /\ lastCall.context.state.kind = "WaitingForVote"
    /\ RefusedInvalidState

(***************************************************************************)
(* Unified layer: the context builder, the projections between the unified *)
(* and the role types, and the dispatch of TwoPhaseCommitAlgorithm.        *)
(***************************************************************************)
\* Option<T> of a builder field: unset, or set by the with_ method.
Unset == << >>
Set(v) == <<v>>
OrNone(o) == IF o = Unset THEN NoneV ELSE o[1]

TwoPhaseCommitContextBuilder(alarm, coordinator, epoch, last_commit_epoch, participants, participant_processes, state, this_process) ==
    [used |-> TRUE, alarm |-> alarm, coordinator |-> coordinator,
     epoch |-> epoch, last_commit_epoch |-> last_commit_epoch,
     participants |-> participants,
     participant_processes |-> participant_processes,
     state |-> state, this_process |-> this_process]

\* Fault injection: the coordinator's state conversion accepts every state.
CoordinatorStateFromAny(state) ==
    [ok |-> TRUE, state |-> state]

\* TryFrom<TwoPhaseCommitState> for CoordinatorState / ParticipantState
CoordinatorStateFrom(state) ==
    IF state.kind \in {"WaitingForVoteRequest", "Voted"}
    THEN Err("InvalidState") ELSE [ok |-> TRUE, state |-> state]

ParticipantStateFrom(state) ==
    IF state.kind \in {"WaitingForStart", "WaitingForDecisionAck", "Voting"}
    THEN Err("InvalidState") ELSE [ok |-> TRUE, state |-> state]

\* TwoPhaseCommitRoleContext::new_coordinator / new_participant
new_coordinator(participants, state) ==
    LET s == CoordinatorStateFrom(state) IN
    IF ~s.ok THEN s
    ELSE [ok |-> TRUE,
          role_context |-> [inner |-> "Coordinator",
                            participants |-> participants, state |-> s.state]]

new_participant(participant_processes, state) ==
    LET s == ParticipantStateFrom(state) IN
    IF ~s.ok THEN s
    ELSE [ok |-> TRUE,
          role_context |-> [inner |-> "Participant",
                            participant_processes |-> participant_processes,
                            state |-> s.state]]

TwoPhaseCommitContext(alarm, coordinator, epoch, last_commit_epoch, role_context, this_process) ==
    [alarm |-> alarm, coordinator |-> coordinator, epoch |-> epoch,
     last_commit_epoch |-> last_commit_epoch, role_context |-> role_context,
     this_process |-> this_process]

\* The role context chosen by the two list fields of the builder.
BuildRoleContext(b) ==
    CASE b.participants # Unset /\ b.participant_processes = Unset ->
            new_coordinator(b.participants[1], b.state[1])
      [] b.participants = Unset /\ b.participant_processes # Unset ->
            new_participant(b.participant_processes[1], b.state[1])
      [] OTHER -> Err("InvalidState")

build(b) ==
    IF b.coordinator = Unset THEN Err("InvalidState")
    ELSE IF b.epoch = Unset THEN Err("InvalidState")
    ELSE IF b.state = Unset THEN Err("InvalidState")
    ELSE IF b.this_process = Unset THEN Err("InvalidState")
    ELSE LET role == BuildRoleContext(b) IN
         IF ~role.ok THEN Err("InvalidState")
         ELSE [ok |-> TRUE,
               context |->
                   TwoPhaseCommitContext(OrNone(b.alarm), b.coordinator[1],
                                         b.epoch[1], OrNone(b.last_commit_epoch),
                                         role.role_context, b.this_process[1])]

\* TryFrom<TwoPhaseCommitContext<.., TwoPhaseCommitRoleContext>> for the
\* coordinator's and the participant's context.
CoordinatorContextFrom(context) ==
    IF context.role_context.inner # "Coordinator" THEN Err("InvalidState")
    ELSE [ok |-> TRUE,
          context |-> CoordinatorContext(context.alarm, context.coordinator,
                          context.epoch, context.last_commit_epoch,
                          context.this_process,
                          context.role_context.participants,
                          context.role_context.state)]

ParticipantContextFrom(context) ==
    IF context.role_context.inner # "Participant" THEN Err("InvalidState")
    ELSE [ok |-> TRUE,
          context |-> ParticipantContext(context.alarm, context.coordinator,
                          context.epoch, context.last_commit_epoch,
                          context.this_process,
                          context.role_context.participant_processes,
                          context.role_context.state)]

\* Fault injection: the conversion back to the unified context loses the alarm.
UnifiedFromCoordinatorNoAlarm(c) ==
    TwoPhaseCommitContext(NoneV, c.coordinator, c.epoch, c.last_commit_epoch,
                          [inner |-> "Coordinator",
                           participants |-> c.participants, state |-> c.state],
                          c.this_process)

\* From<TwoPhaseCommitContext<.., CoordinatorContext>> and
\* From<TwoPhaseCommitContext<.., ParticipantContext>> for the unified context.
UnifiedFromCoordinator(c) ==
    TwoPhaseCommitContext(c.alarm, c.coordinator, c.epoch, c.last_commit_epoch,
                          [inner |-> "Coordinator",
                           participants |-> c.participants, state |-> c.state],
                          c.this_process)

UnifiedFromParticipant(c) ==
    TwoPhaseCommitContext(c.alarm, c.coordinator, c.epoch, c.last_commit_epoch,
                          [inner |-> "Participant",
                           participant_processes |-> c.participant_processes,
                           state |-> c.state],
                          c.this_process)

\* TryFrom<TwoPhaseCommitEvent> for CoordinatorEvent / ParticipantEvent, with
\* TryFrom<TwoPhaseCommitMessage> for the message of a Deliver.
CoordinatorEventFrom(event) ==
    IF event.type = "Deliver" /\ event.msg.type \in {"VoteRequest", "Commit", "Abort"}
    THEN Err("InvalidState") ELSE [ok |-> TRUE, event |-> event]

ParticipantEventFrom(event) ==
    IF \/ event.type = "Start"
       \/ event.type = "Deliver" /\ event.msg.type = "VoteResponse"
    THEN Err("InvalidState") ELSE [ok |-> TRUE, event |-> event]

\* From<CoordinatorAction> / From<ParticipantAction> for TwoPhaseCommitAction
LiftCoordinatorAction(a) ==
    CASE IsUpdate(a) -> Update(UnifiedFromCoordinator(a.context), a.alarm)
      [] IsNotify(a) /\ a.kind = "RequestForVote" ->
            [a EXCEPT !.kind = "CoordinatorRequestForVote"]
      [] OTHER -> a

LiftParticipantAction(a) ==
    CASE IsUpdate(a) -> Update(UnifiedFromParticipant(a.context), a.alarm)
      [] IsNotify(a) /\ a.kind = "RequestForVote" ->
            [a EXCEPT !.kind = "ParticipantRequestForVote"]
      [] OTHER -> a

\* Fault injection: the dispatch goes by the kind of the role context, not by
\* whether this process is the coordinator.
TwoPhaseCommitEventByKind(event, context, time) ==
    IF context.role_context.inner = "Coordinator"
    THEN LET e == CoordinatorEventFrom(event)
             c == CoordinatorContextFrom(context)
         IN  IF ~e.ok THEN Err("InvalidState")
             ELSE LET r == CoordinatorEvent(e.event, c.context, time) IN
                  IF r.ok THEN Ok(MapSeq(r.actions, LiftCoordinatorAction))
                  ELSE r
    ELSE LET e == ParticipantEventFrom(event)
             c == ParticipantContextFrom(context)
         IN  IF ~e.ok THEN Err("InvalidState")
             ELSE LET r == ParticipantEvent(e.event, c.context, time) IN
                  IF r.ok THEN Ok(MapSeq(r.actions, LiftParticipantAction))
                  ELSE r

\* TwoPhaseCommitAlgorithm::event
TwoPhaseCommitEvent(event, context, time) ==
    IF context.coordinator = context.this_process
    THEN LET e == CoordinatorEventFrom(event)
             c == CoordinatorContextFrom(context)
         IN  IF ~e.ok THEN Err("InvalidState")
             ELSE IF ~c.ok THEN Err("InvalidState")
             ELSE LET r == CoordinatorEvent(e.event, c.context, time) IN
                  IF r.ok THEN Ok(MapSeq(r.actions, LiftCoordinatorAction))
                  ELSE r
    ELSE LET e == ParticipantEventFrom(event)
             c == ParticipantContextFrom(context)
         IN  IF ~e.ok THEN Err("InvalidState")
             ELSE IF ~c.ok THEN Err("InvalidState")
             ELSE LET r == ParticipantEvent(e.event, c.context, time) IN
                  IF r.ok THEN Ok(MapSeq(r.actions, LiftParticipantAction))
                  ELSE r

(***************************************************************************)
(* UnifiedSpec: a context is built with the builder and TwoPhaseCommit-    *)
(* Algorithm::event is called on it, its Updates stored, again and again.  *)
(***************************************************************************)
UnifiedStates == CoordinatorStates \cup ParticipantStates

Options(S) == {Unset} \cup {Set(v) : v \in S}

Builders ==
    {TwoPhaseCommitContextBuilder(a, c, e, l, ps, pp, st, tp) :
        a \in Options({ACK_TIMEOUT_SECONDS}), c \in Options({Coord}),
        e \in Options({0, 1}), l \in Options({0}),
        ps \in Options({<<Participant(P1)>>}), pp \in Options({<<P1>>}),
        st \in Options(UnifiedStates), tp \in Options({Coord, P1})}

UnifiedSenders == {Coord, P1}

\* The events of the unified alphabet. (participant_message.rs gives no arm
\* for a DecisionAck, so none is delivered to a non-coordinator.)
UnifiedEvents(context) ==
    {StartEv(v) : v \in Values} \cup {VoteEv(b) : b \in BOOLEAN} \cup {AlarmEv}
    \cup {Deliver(p, m) : p \in UnifiedSenders,
            m \in {VoteRequest(e, v) : e \in Epochs, v \in Values}
                  \cup {VoteResponse(e, b) : e \in Epochs, b \in BOOLEAN}
                  \cup {CommitMsg(e) : e \in Epochs}
                  \cup {AbortMsg(e) : e \in Epochs}
                  \cup {DecisionRequest(e) : e \in Epochs}
                  \cup {DecisionAck(e) : e \in Epochs,
                          x \in {context.coordinator} \cap {context.this_process}}}

UnifiedInit ==
    /\ builder \in Builders
    /\ built = NotBuilt
    /\ uctx = NoUnified
    /\ utimer = NoUnified
    /\ lastCall = NoCall
    /\ now \in {0, VOTE_TIMEOUT_SECONDS + 1}
    /\ cctx = CoordinatorContext(NoneV, Coord, 0, NoneV, Coord, << >>,
                                 WaitingForStart)
    /\ ctimer = NoneV
    /\ pctx = << >>
    /\ ptimer = << >>
    /\ net = {}
    /\ decisions = {}
    /\ decisionSent = {}
    /\ yesRecorded = {}

roleVars == <<cctx, ctimer, pctx, ptimer, net, now, decisions, decisionSent,
              yesRecorded>>

\* builder.build()
Build ==
    /\ built = NotBuilt
    /\ built' = [called |-> TRUE, result |-> build(builder)]
    /\ UNCHANGED <<builder, lastCall, roleVars, unifiedVars>>

\* TwoPhaseCommitAlgorithm::event on the stored context; the embedder stores
\* the context of the last Update returned.
UnifiedCall ==
    /\ built.called
    /\ built.result.ok
    /\ lastCall = NoCall
    /\ \E event \in UnifiedEvents(built.result.context) :
          LET result == TwoPhaseCommitEvent(event, built.result.context, now) IN
          /\ EpochBounded(result.actions)
          /\ lastCall' = [role |-> "unified", event |-> event,
                          context |-> built.result.context, time |-> now,
                          result |-> result]
          /\ built' = [built EXCEPT !.result.context =
                          LastContext(built.result.context, result.actions)]
    /\ UNCHANGED <<builder, roleVars, unifiedVars>>

UnifiedReturn ==
    /\ lastCall # NoCall
    /\ lastCall' = NoCall
    /\ UNCHANGED <<builder, built, roleVars, unifiedVars>>

UnifiedNext ==
    \/ Build
    \/ UnifiedCall
    \/ UnifiedReturn

UnifiedSpec == UnifiedInit /\ [][UnifiedNext]_vars

UnifiedCalled == lastCall.role = "unified"

\* The last unified call was made by the coordinator process.
ByCoordinator == lastCall.context.coordinator = lastCall.context.this_process

\* The event or the context of the last unified call has no projection to
\* the role of the calling process.
NotProjectable ==
    LET event == lastCall.event
        inner == lastCall.context.role_context.inner
        delivers(types) == event.type = "Deliver" /\ event.msg.type \in types
    IN  IF ByCoordinator
        THEN delivers({"VoteRequest", "Commit", "Abort"}) \/ inner # "Coordinator"
        ELSE \/ event.type = "Start"
             \/ delivers({"VoteResponse"})
             \/ inner # "Participant"

\* What the role engine of the calling process returns for the last unified
\* call, on the role's view of the context.
RoleResult ==
    LET c == lastCall.context
        r == c.role_context
    IN  IF ByCoordinator
        THEN CoordinatorEvent(lastCall.event,
                 CoordinatorContext(c.alarm, c.coordinator, c.epoch,
                                    c.last_commit_epoch, c.this_process,
                                    r.participants, r.state),
                 lastCall.time)
        ELSE ParticipantEvent(lastCall.event,
                 ParticipantContext(c.alarm, c.coordinator, c.epoch,
                                    c.last_commit_epoch, c.this_process,
                                    r.participant_processes, r.state),
                 lastCall.time)

\* Unified action u is role action a, lifted.
LiftedFrom(u, a) ==
    /\ u.type = a.type
    /\ IsSend(a) => u = a
    /\ IsNotify(a) =>
          /\ u.reason = a.reason
          /\ u.value = a.value
          /\ u.kind = IF a.kind # "RequestForVote" THEN a.kind
                      ELSE IF ByCoordinator THEN "CoordinatorRequestForVote"
                      ELSE "ParticipantRequestForVote"
    /\ IsUpdate(a) =>
          /\ u.alarm = a.alarm
          /\ u.context.alarm = a.context.alarm
          /\ u.context.coordinator = a.context.coordinator
          /\ u.context.this_process = a.context.this_process
          /\ u.context.epoch = a.context.epoch
          /\ u.context.last_commit_epoch = a.context.last_commit_epoch
          /\ u.context.role_context.state = a.context.state
          /\ IF ByCoordinator
             THEN /\ u.context.role_context.inner = "Coordinator"
                  /\ u.context.role_context.participants = a.context.participants
             ELSE /\ u.context.role_context.inner = "Participant"
                  /\ u.context.role_context.participant_processes
                        = a.context.participant_processes

\* C17 -- Unified dispatch: TwoPhaseCommitAlgorithm::event routes to the
\* coordinator engine exactly when context.coordinator = context.this_process
\* and to the participant engine otherwise, and returns the role engine's
\* actions in the same order, lifted; it returns Err(InvalidState) and no
\* action when the event or the context has no projection to that role (Start
\* for a non-coordinator, VoteRequest, Commit or Abort delivered to the
\* coordinator, VoteResponse delivered to a participant, a role context of
\* the other kind).
C17_UnifiedDispatch ==
    UnifiedCalled =>
        IF NotProjectable
        THEN /\ ~lastCall.result.ok
             /\ lastCall.result.error = "InvalidState"
             /\ Returned = << >>
             /\ built.result.context = lastCall.context
        ELSE /\ lastCall.result.ok = RoleResult.ok
             /\ lastCall.result.error = RoleResult.error
             /\ Len(Returned) = Len(RoleResult.actions)
             /\ \A i \in 1..Len(Returned) :
                   LiftedFrom(Returned[i], RoleResult.actions[i])

\* C17 witness: the coordinator process is given a Start and the unified
\* call returns the coordinator engine's VoteRequest and Update, lifted.
C17_Witness ==
    /\ UnifiedCalled
    /\ ByCoordinator
    /\ ~NotProjectable
    /\ lastCall.event.type = "Start"
    /\ lastCall.result.ok
    /\ Len(Returned) = 2
    /\ IsSend(Returned[1])
    /\ IsUpdate(Returned[2])
    /\ Returned[2].context.role_context.state.kind = "Voting"

\* A context of the coordinator kind held by a process that is not the
\* coordinator is refused by the dispatch.
C17_RefusedWitness ==
    /\ UnifiedCalled
    /\ ~ByCoordinator
    /\ lastCall.context.role_context.inner = "Coordinator"
    /\ lastCall.event.type = "Vote"
    /\ ~lastCall.result.ok

\* The last call delivered a message to a role engine.
DeliverCalled ==
    /\ CoordinatorCalled \/ ParticipantCalled
    /\ lastCall.event.type = "Deliver"

\* The participant record of the sender in the coordinator's input context.
SenderRecord ==
    lastCall.context.participants[
        FindParticipant(lastCall.context.participants, lastCall.event.from)]

\* The delivered message is stale, a duplicate, of another epoch, from a
\* wrong sender or met in a wrong state.
NotAccepted ==
    LET msg == lastCall.event.msg
        context == lastCall.context
        from == lastCall.event.from
        in(kind) == context.state.kind = kind
    IN  CASE CoordinatorCalled /\ msg.type = "VoteResponse" ->
                \/ ~Listed(context, from)
                \/ msg.epoch # context.epoch
                \/ ~in("Voting")
                \/ SenderRecord.vote # VoteNone
          [] CoordinatorCalled /\ msg.type = "DecisionAck" ->
                \/ ~Listed(context, from)
                \/ msg.epoch # context.epoch
                \/ ~in("WaitingForDecisionAck")
                \/ SenderRecord.decision_ack
          [] ParticipantCalled /\ msg.type = "VoteRequest" ->
                \/ from # context.coordinator
                \/ msg.epoch # context.epoch
                \/ ~in("WaitingForVoteRequest")
          [] ParticipantCalled /\ msg.type \in {"Commit", "Abort"} ->
                msg.epoch # context.epoch \/ ~in("Voted")
          [] OTHER -> AnswerOf(Returned) = "Dropped"

OnlyDropped ==
    /\ Len(Returned) = 1
    /\ IsNotify(Returned[1])
    /\ Returned[1].kind = "MessageDropped"
    /\ ContextAfter = lastCall.context

NothingDropped ==
    \A i \in 1..Len(Returned) :
        ~(IsNotify(Returned[i]) /\ Returned[i].kind = "MessageDropped")

\* C18 -- Dropped messages are never errors: every Deliver of a message of
\* the role's alphabet returns Ok, in every state and for every sender and
\* epoch; a message that is not accepted (stale, duplicate, wrong epoch,
\* wrong sender, wrong state) yields exactly one Notify(MessageDropped) and
\* neither an Update nor a SendMessage.
C18_DropsAreNotErrors ==
    DeliverCalled =>
        /\ lastCall.result.ok
        /\ IF NotAccepted THEN OnlyDropped ELSE NothingDropped /\ Returned # << >>

\* C18 witness: a second VoteResponse of a participant whose vote is recorded
\* is dropped by the coordinator that is still collecting votes.
C18_Witness ==
    /\ DeliverCalled
    /\ CoordinatorCalled
    /\ lastCall.event.msg.type = "VoteResponse"
    /\ lastCall.event.msg.epoch = lastCall.context.epoch
    /\ lastCall.context.state.kind = "Voting"
    /\ Listed(lastCall.context, lastCall.event.from)
    /\ SenderRecord.vote # VoteNone
    /\ OnlyDropped

CoordinatorKinds ==
    {"Abort", "Commit", "Voting", "WaitingForStart", "WaitingForVote",
     "WaitingForDecisionAck"}

ParticipantKinds ==
    {"Abort", "Commit", "Voted", "WaitingForVoteRequest", "WaitingForVote"}

RequiredSet ==
    /\ builder.coordinator # Unset
    /\ builder.epoch # Unset
    /\ builder.state # Unset
    /\ builder.this_process # Unset

CoordinatorKindChosen ==
    builder.participants # Unset /\ builder.participant_processes = Unset

ParticipantKindChosen ==
    builder.participants = Unset /\ builder.participant_processes # Unset

BuilderLegal ==
    /\ RequiredSet
    /\ \/ CoordinatorKindChosen /\ builder.state[1].kind \in CoordinatorKinds
       \/ ParticipantKindChosen /\ builder.state[1].kind \in ParticipantKinds

\* C19 -- build returns Ok if and only if coordinator, epoch, state and
\* this_process are all set, exactly one of with_participants and
\* with_participant_processes was called, and the state is legal for the
\* chosen role kind; otherwise it returns an InvalidStateError. The alarm
\* and last_commit_epoch do not matter.
C19_BuildValidation ==
    built.called =>
        /\ built.result.ok <=> BuilderLegal
        /\ ~built.result.ok => built.result.error = "InvalidState"

\* C19 witness: a builder with neither alarm nor last_commit_epoch is
\* accepted, and the context carries None for both.
C19_Witness ==
    /\ built.called
    /\ lastCall = NoCall
    /\ builder.alarm = Unset
    /\ builder.last_commit_epoch = Unset
    /\ BuilderLegal
    /\ built.result.ok
    /\ built.result.context.alarm = NoneV
    /\ built.result.context.last_commit_epoch = NoneV

\* C19 witness: a participant-only state with the coordinator's list is
\* refused although every required field is set.
C19_RefusedWitness ==
    /\ built.called
    /\ RequiredSet
    /\ CoordinatorKindChosen
    /\ builder.state[1].kind = "Voted"
    /\ ~built.result.ok

\* The context the embedder holds: the one built, then the one of the last
\* Update returned by the unified engine.
HeldContext == built.result.context

\* C20 -- Invariant I6, role kind matches role: every context the builder
\* accepts, and every context of an Update produced from it, has a
\* coordinator-kind role context if and only if this_process = coordinator,
\* and a participant-kind role context if and only if this_process #
\* coordinator.
C20_RoleKindMatchesRole ==
    (built.called /\ built.result.ok) =>
        /\ HeldContext.role_context.inner = "Coordinator"
              <=> HeldContext.this_process = HeldContext.coordinator
        /\ HeldContext.role_context.inner = "Participant"
              <=> HeldContext.this_process # HeldContext.coordinator

\* The fields a context conversion has to carry over, read from a unified
\* context u and from a role-typed context c.
SameCommonFields(u, c) ==
    /\ c.alarm = u.alarm
    /\ c.coordinator = u.coordinator
    /\ c.epoch = u.epoch
    /\ c.last_commit_epoch = u.last_commit_epoch
    /\ c.this_process = u.this_process
    /\ c.state = u.role_context.state

CoordinatorRoundTrip(u) ==
    LET c == CoordinatorContextFrom(u) IN
    /\ c.ok
    /\ SameCommonFields(u, c.context)
    /\ c.context.participants = u.role_context.participants
    /\ UnifiedFromCoordinator(c.context) = u
    /\ ~ParticipantContextFrom(u).ok
    /\ ParticipantContextFrom(u).error = "InvalidState"

ParticipantRoundTrip(u) ==
    LET c == ParticipantContextFrom(u) IN
    /\ c.ok
    /\ SameCommonFields(u, c.context)
    /\ c.context.participant_processes = u.role_context.participant_processes
    /\ UnifiedFromParticipant(c.context) = u
    /\ ~CoordinatorContextFrom(u).ok
    /\ CoordinatorContextFrom(u).error = "InvalidState"

\* C21 -- Context projection round trip: a unified coordinator context the
\* builder produced, converted to the coordinator-typed context and back,
\* keeps alarm, coordinator, epoch, last_commit_epoch, state and the
\* participant list, and likewise a participant context through the
\* participant-typed context; the conversion to the other role's typed
\* context fails with an InvalidStateError.
C21_ContextRoundTrip ==
    (built.called /\ built.result.ok) =>
        IF HeldContext.role_context.inner = "Coordinator"
        THEN CoordinatorRoundTrip(HeldContext)
        ELSE ParticipantRoundTrip(HeldContext)

\* C21 witness: the builder produced a coordinator context with an alarm and
\* a last commit epoch, as in the builder's own test, and it went through the
\* coordinator-typed context and back unchanged.
C21_Witness ==
    /\ built.called
    /\ built.result.ok
    /\ lastCall = NoCall
    /\ HeldContext.role_context.inner = "Coordinator"
    /\ HeldContext.alarm # NoneV
    /\ HeldContext.last_commit_epoch # NoneV
    /\ HeldContext.role_context.state = WaitingForStart
    /\ CoordinatorRoundTrip(HeldContext)

\* C21 witness: the same for a context of the participant kind.
C21_ParticipantWitness ==
    /\ built.called
    /\ built.result.ok
    /\ HeldContext.role_context.inner = "Participant"
    /\ HeldContext.alarm # NoneV
    /\ ParticipantRoundTrip(HeldContext)

\* Invariant I3 of one context.
LastCommitBelowEpoch(context) ==
    context.last_commit_epoch # NoneV =>
        context.last_commit_epoch < context.epoch

\* C22 -- Invariant I3: from a context with last_commit_epoch = None, or any
\* context with last_commit_epoch < epoch, every context carried by an Update
\* of either engine has last_commit_epoch = None or last_commit_epoch < epoch,
\* and so has the context after the Updates are applied.
C22_LastCommitBelowEpoch ==
    ((CoordinatorCalled \/ ParticipantCalled)
        /\ LastCommitBelowEpoch(lastCall.context)) =>
        /\ \A i \in UpdateIndices(Returned) :
              LastCommitBelowEpoch(Returned[i].context)
        /\ LastCommitBelowEpoch(ContextAfter)

\* C22 witness: an advance of the epoch that records the last commit epoch
\* (the coordinator's Alarm in state Commit) from a context that had none.
C22_Witness ==
    /\ CoordinatorCalled
    /\ lastCall.context.last_commit_epoch = NoneV
    /\ cctx.last_commit_epoch = lastCall.context.epoch
    /\ cctx.epoch = lastCall.context.epoch + 1

\* The context in force just before the i-th returned action: the one of the
\* last Update before it, or the input context.
ContextBefore(i) ==
    LET earlier == {j \in UpdateIndices(Returned) : j < i} IN
    IF earlier = {} THEN lastCall.context
    ELSE Returned[Max(earlier)].context

\* The i-th returned action is an Update that enters a state: its state is
\* not the one in force before it.
EntersState(i) ==
    /\ IsUpdate(Returned[i])
    /\ Returned[i].context.state # ContextBefore(i).state

\* The alarm I5 asks of an Update entering the given state at the given time.
AlarmOnEntering(state, time) ==
    CASE state.kind = "Voting" ->
            IF state.start = time THEN time + 30 ELSE NoneV - 1
      [] state.kind = "WaitingForDecisionAck" ->
            IF state.start = time THEN time + 5 ELSE NoneV - 1
      [] state.kind = "Voted" ->
            IF state.start = time THEN time + 30 ELSE NoneV - 1
      [] OTHER -> NoneV

\* C23 -- Invariant I5: every Update that enters a state with a timeout
\* stores timeout_start = now in the state and carries alarm = Some(now +
\* timeout): Voting with 30 s, WaitingForDecisionAck with 5 s, Voted with
\* 30 s (also when the decision timeout is re-armed); every Update that
\* enters a state without a timeout carries alarm = None.
C23_AlarmOnEntry ==
    (CoordinatorCalled \/ ParticipantCalled) =>
        \A i \in 1..Len(Returned) :
            EntersState(i) =>
                Returned[i].alarm =
                    AlarmOnEntering(Returned[i].context.state, lastCall.time)

\* C23 witness: the participant's decision timeout expired and the Update
\* re-arms it, with the new start stored in state Voted.
C23_Witness ==
    /\ ParticipantCalled
    /\ lastCall.event.type = "Alarm"
    /\ lastCall.context.state.kind = "Voted"
    /\ \E i \in 1..Len(Returned) :
          /\ EntersState(i)
          /\ Returned[i].context.state.kind = "Voted"
          /\ Returned[i].context.state.start = lastCall.time
          /\ Returned[i].alarm = lastCall.time + DECISION_TIMEOUT_SECONDS

\* C23 witness: an abort enters Abort without an alarm and then
\* WaitingForDecisionAck with the ack timeout.
C23_AckWaitWitness ==
    /\ CoordinatorCalled
    /\ \E i, j \in 1..Len(Returned) :
          /\ i < j
          /\ EntersState(i) /\ Returned[i].context.state = Abort
          /\ Returned[i].alarm = NoneV
          /\ EntersState(j)
          /\ Returned[j].context.state.kind = "WaitingForDecisionAck"
          /\ Returned[j].alarm = lastCall.time + ACK_TIMEOUT_SECONDS

(***************************************************************************)
(* DualSpec: every process runs TwoPhaseCommitAlgorithm on a context of    *)
(* the builder, and the coordinator is listed among its own participants   *)
(* (participants = [me, p1, p2], coordinator = this_process = me, as in    *)
(* the builder's test).  Every process votes yes.                          *)
(***************************************************************************)
DualProcesses == <<Coord, P1, P2>>

DualBuilder(p) ==
    TwoPhaseCommitContextBuilder(
        Unset, Set(Coord), Set(0), Unset,
        IF p = Coord THEN Set(MapSeq(DualProcesses, Participant)) ELSE Unset,
        IF p = Coord THEN Unset ELSE Set(DualProcesses),
        Set(IF p = Coord THEN WaitingForStart ELSE WaitingForVoteRequest),
        Set(p))

DualInit ==
    /\ uctx = [p \in SeqToSet(DualProcesses) |-> build(DualBuilder(p)).context]
    /\ utimer = [p \in SeqToSet(DualProcesses) |-> NoneV]
    /\ builder = NoBuilder
    /\ built = NotBuilt
    /\ lastCall = NoCall
    /\ now = 0
    /\ cctx = CoordinatorContext(NoneV, Coord, 0, NoneV, Coord, << >>,
                                 WaitingForStart)
    /\ ctimer = NoneV
    /\ pctx = << >>
    /\ ptimer = << >>
    /\ net = {}
    /\ decisions = {}
    /\ decisionSent = {}
    /\ yesRecorded = {}

DualEpochBounded(actions) ==
    \A i \in UpdateIndices(actions) : actions[i].context.epoch <= MaxEpoch

\* The decisions recorded by the Updates of a unified action list.
DualDecisionsIn(process, actions) ==
    {[process |-> process, epoch |-> actions[i].context.epoch,
      decision |-> actions[i].context.role_context.state.kind] :
        i \in {j \in UpdateIndices(actions) :
                  actions[j].context.role_context.state.kind
                      \in {"Commit", "Abort"}}}

\* One call of TwoPhaseCommitAlgorithm::event at process p: its Updates are
\* stored, its alarm programmed, its messages handed to the network. An Err
\* result carries no action and changes nothing.
DualStep(p, event) ==
    LET result == TwoPhaseCommitEvent(event, uctx[p], now) IN
    /\ DualEpochBounded(result.actions)
    /\ lastCall' = [role |-> "dual", process |-> p, event |-> event,
                    context |-> uctx[p], time |-> now, result |-> result]
    /\ uctx' = [uctx EXCEPT ![p] = LastContext(uctx[p], result.actions)]
    /\ utimer' = [utimer EXCEPT ![p] =
                    TimerAfter(IF event.type = "Alarm" THEN NoneV ELSE utimer[p],
                               result.actions)]
    /\ net' = net \cup Sent(p, result.actions)
    /\ decisions' = decisions \cup DualDecisionsIn(p, result.actions)
    /\ UNCHANGED <<cctx, ctimer, pctx, ptimer, now, decisionSent, yesRecorded,
                   builderVars>>

DualStart ==
    /\ uctx[Coord].role_context.state.kind = "WaitingForStart"
    /\ \E v \in Values : DualStep(Coord, StartEv(v))

\* Every process answers a RequestForVote with Vote(true).
DualVote ==
    \E p \in DOMAIN uctx :
        /\ uctx[p].role_context.state.kind = "WaitingForVote"
        /\ DualStep(p, VoteEv(TRUE))

DualAlarm ==
    \E p \in DOMAIN uctx :
        /\ IsSome(utimer[p])
        /\ now >= utimer[p]
        /\ DualStep(p, AlarmEv)

\* A message in flight reaches the unified engine of its addressee, the
\* coordinator's message to itself included.
DualDeliver ==
    \E m \in net : m.to \in DOMAIN uctx /\ DualStep(m.to, Deliver(m.from, m.msg))

DualTick ==
    /\ \E p \in DOMAIN utimer : \E n \in {utimer[p], utimer[p] + 1} :
            /\ IsSome(utimer[p])
            /\ n > now
            /\ n <= MaxTime
            /\ now' = n
    /\ UNCHANGED <<cctx, ctimer, pctx, ptimer, net, lastCall, decisions,
                   decisionSent, yesRecorded, builderVars, unifiedVars>>

DualNext ==
    \/ DualStart
    \/ DualVote
    \/ DualAlarm
    \/ DualDeliver
    \/ DualTick

DualSpec == DualInit /\ [][DualNext]_vars

DualCalled == lastCall.role = "dual"

\* The coordinator's unified engine is handed the VoteRequest the coordinator
\* sent to itself for the epoch it is collecting votes for.
OwnVoteRequestDelivered ==
    /\ DualCalled
    /\ lastCall.process = Coord
    /\ lastCall.event.type = "Deliver"
    /\ lastCall.event.from = Coord
    /\ lastCall.event.msg.type = "VoteRequest"
    /\ lastCall.event.msg.epoch = lastCall.context.epoch
    /\ lastCall.context.role_context.state.kind = "Voting"

\* The vote slot the coordinator keeps for itself.
OwnSlot == uctx[Coord].role_context.participants[1]

\* No run of DualSpec fills the coordinator's own vote slot, and none reaches
\* a Commit decision, although every process votes yes when asked.
DualRoleOwnSlotEmpty == Coord \in DOMAIN uctx => OwnSlot.vote = VoteNone
DualRoleNeverCommits == \A d \in decisions : d.decision # "Commit"

\* C24 -- Dual-role coordinator: with the coordinator listed among its own
\* participants and every process voting yes, the coordinator's own
\* VoteRequest/VoteResponse exchange is processed through the unified engine
\* (the VoteRequest it sent to itself is taken, not refused), so that its own
\* vote slot can become Some(true) and the epoch can reach Commit.
C24_DualRoleExchange ==
    OwnVoteRequestDelivered => lastCall.result.ok

\* The last call handed Start to the coordinator engine waiting for it.
StartCalled ==
    /\ CoordinatorCalled
    /\ lastCall.event.type = "Start"
    /\ lastCall.context.state.kind = "WaitingForStart"

\* The list the Start transition is said to return.
StartSequence(value, context, time) ==
    <<Update([context EXCEPT !.state = Voting(time)], time + 30)>>
    \o [i \in 1..Len(context.participants) |->
            SendMessage(context.participants[i].process,
                        VoteRequest(context.epoch, value))]

\* C25 -- Start transition: Start(v) in WaitingForStart at epoch e returns,
\* in this order, Update{state = Voting{now}, alarm = Some(now + 30 s)} and
\* then exactly one SendMessage(p, VoteRequest(e, v)) per participant in list
\* order: the Update precedes every VoteRequest.
C25_StartSequence ==
    StartCalled =>
        /\ lastCall.result.ok
        /\ Returned = StartSequence(lastCall.event.value, lastCall.context,
                                    lastCall.time)

\* The last call delivered a VoteResponse to the coordinator engine.
VoteResponseCalled ==
    /\ CoordinatorCalled
    /\ lastCall.event.type = "Deliver"
    /\ lastCall.event.msg.type = "VoteResponse"

\* The four conditions under which a VoteResponse is to be recorded.
VoteResponseAcceptable ==
    /\ Listed(lastCall.context, lastCall.event.from)
    /\ lastCall.event.msg.epoch = lastCall.context.epoch
    /\ lastCall.context.state.kind = "Voting"
    /\ SenderRecord.vote = VoteNone

\* The first returned action is the Update that writes the sender's vote slot
\* and nothing else.
VoteRecorded ==
    LET i == FindParticipant(lastCall.context.participants, lastCall.event.from)
    IN  /\ Returned # << >>
        /\ IsUpdate(Returned[1])
        /\ Returned[1].context =
              [lastCall.context EXCEPT
                  !.participants[i].vote = VoteSome(lastCall.event.msg.vote)]

\* The votes already recorded in the input context are those of the context
\* after the call.
RecordedVotesKept ==
    /\ Len(ContextAfter.participants) = Len(lastCall.context.participants)
    /\ \A j \in 1..Len(lastCall.context.participants) :
          lastCall.context.participants[j].vote # VoteNone =>
              ContextAfter.participants[j].vote =
                  lastCall.context.participants[j].vote

\* C26 -- VoteResponse acceptance: the coordinator records VoteResponse(e, v)
\* from p, by an Update with p.vote = Some(v), if and only if p is a listed
\* participant, e is the current epoch, the state is Voting and p.vote is
\* None; otherwise the message is dropped with a single MessageDropped. So a
\* vote slot is written at most once per epoch and a recorded vote is never
\* changed by a later or duplicate VoteResponse.
C26_VoteResponseAcceptance ==
    VoteResponseCalled =>
        /\ lastCall.result.ok
        /\ IF VoteResponseAcceptable THEN VoteRecorded ELSE OnlyDropped
        /\ RecordedVotesKept

\* C26 witness: a participant that voted no sends a VoteResponse with yes
\* while the coordinator is still collecting; it is dropped and the recorded
\* vote stays.
C26_Witness ==
    /\ VoteResponseCalled
    /\ lastCall.context.state.kind = "Voting"
    /\ lastCall.event.msg.epoch = lastCall.context.epoch
    /\ Listed(lastCall.context, lastCall.event.from)
    /\ SenderRecord.vote = VoteSome(FALSE)
    /\ lastCall.event.msg.vote
    /\ OnlyDropped
    /\ ContextAfter.participants = lastCall.context.participants

\* C26 witness: a first VoteResponse is recorded.
C26_RecordedWitness ==
    /\ VoteResponseCalled
    /\ VoteResponseAcceptable
    /\ VoteRecorded

\* The abort sequence as specified: Update to Abort without alarm, Abort(e) to
\* the participants that voted yes, in list order, Notify(Abort), Update to
\* WaitingForDecisionAck{now} with the ack timeout.
AbortSequence(context, time) ==
    LET aborted == [context EXCEPT !.state = Abort]
        yes == SelectSeq(context.participants,
                         LAMBDA p : p.vote = VoteSome(TRUE))
    IN  <<Update(aborted, NoneV)>>
        \o [i \in 1..Len(yes) |->
                SendMessage(yes[i].process, AbortMsg(context.epoch))]
        \o <<Notify("Abort")>>
        \o <<Update([aborted EXCEPT !.state = WaitingForDecisionAck(time)],
                    time + 5)>>

\* The context of the recording Update of an accepted VoteResponse.
TallyContext == Returned[1].context

VotesMissing(context) ==
    \E i \in 1..Len(context.participants) :
        context.participants[i].vote = VoteNone

SomeNo(context) ==
    \E i \in 1..Len(context.participants) :
        context.participants[i].vote = VoteSome(FALSE)

\* C27 -- Vote tally: after recording a VoteResponse, if some participant
\* still has vote None the coordinator stays in Voting and returns only the
\* recording Update; if all have voted and at least one voted false it
\* appends the abort sequence; if all voted true it appends
\* Update{state = WaitingForVote, alarm = None} and Notify(RequestForVote),
\* and sends no Commit.
C27_VoteTally ==
    (VoteResponseCalled /\ VoteResponseAcceptable) =>
        /\ VoteRecorded
        /\ CASE VotesMissing(TallyContext) ->
                    /\ Len(Returned) = 1
                    /\ ContextAfter.state.kind = "Voting"
             [] ~VotesMissing(TallyContext) /\ SomeNo(TallyContext) ->
                    Tail(Returned) = AbortSequence(TallyContext, lastCall.time)
             [] OTHER ->
                    Tail(Returned) =
                        <<Update([TallyContext EXCEPT !.state = WaitingForVote],
                                 NoneV),
                          Notify("RequestForVote")>>
        /\ \A i \in 1..Len(Returned) :
              ~(IsSend(Returned[i]) /\ Returned[i].msg.type = "Commit")

\* C27 witness: the last vote arrives, it is a yes after an earlier no, and
\* the tally ends in the abort sequence with one Abort to the yes voter.
C27_Witness ==
    /\ VoteResponseCalled
    /\ VoteResponseAcceptable
    /\ lastCall.event.msg.vote
    /\ Len(lastCall.context.participants) = 2
    /\ ~VotesMissing(TallyContext)
    /\ SomeNo(TallyContext)
    /\ Len(Returned) = 5
    /\ IsSend(Returned[3])
    /\ Returned[3].to = lastCall.event.from
    /\ cctx.state.kind = "WaitingForDecisionAck"

\* C27 witness: the last yes completes an all-yes tally and the coordinator
\* is asked for its own vote.
C27_AllYesWitness ==
    /\ VoteResponseCalled
    /\ VoteResponseAcceptable
    /\ Len(lastCall.context.participants) = 2
    /\ ~VotesMissing(TallyContext)
    /\ ~SomeNo(TallyContext)
    /\ cctx.state = WaitingForVote
    /\ Returned[3] = Notify("RequestForVote")

\* The indices of the Updates of the last coordinator call that enter Abort.
AbortIndices ==
    {i \in 1..Len(Returned) :
        EntersState(i) /\ Returned[i].context.state = Abort}

\* Vote(false) in WaitingForVote; an Alarm in Voting after the vote timeout.
VoteFalseCalled ==
    /\ lastCall.event.type = "Vote"
    /\ ~lastCall.event.vote
    /\ lastCall.context.state.kind = "WaitingForVote"

VoteTimeoutExpired ==
    /\ lastCall.event.type = "Alarm"
    /\ lastCall.context.state.kind = "Voting"
    /\ lastCall.time > lastCall.context.state.start + 30

\* The reason of the abort of the last call is one of the three named.
AbortCause ==
    \/ VoteResponseCalled /\ VoteResponseAcceptable
          /\ ~VotesMissing(TallyContext) /\ SomeNo(TallyContext)
    \/ VoteFalseCalled
    \/ VoteTimeoutExpired

\* C28 -- Abort sequence: whenever the coordinator aborts epoch e (a no vote
\* completes the tally, Vote(false) in WaitingForVote, or an expired vote
\* timeout) it emits, in order, Update{state = Abort, alarm = None}, then
\* SendMessage(p, Abort(e)) for exactly the participants with vote =
\* Some(true), then Notify(Abort), then Update{state =
\* WaitingForDecisionAck{now}, alarm = Some(now + 5 s)}, and the epoch is not
\* advanced in that list.
C28_AbortSequence ==
    CoordinatorCalled =>
        /\ \A i \in AbortIndices :
              /\ AbortCause
              /\ SubSeq(Returned, i, Len(Returned)) =
                    AbortSequence(ContextBefore(i), lastCall.time)
              /\ \A j \in UpdateIndices(Returned) :
                    Returned[j].context.epoch = lastCall.context.epoch
        /\ (VoteFalseCalled \/ VoteTimeoutExpired) =>
              Returned = AbortSequence(lastCall.context, lastCall.time)

\* C28 witness: the vote timeout expires when one participant has voted yes
\* and the other has not voted; only the yes voter is sent Abort.
C28_Witness ==
    /\ CoordinatorCalled
    /\ lastCall.event.type = "Alarm"
    /\ lastCall.context.state.kind = "Voting"
    /\ Len(lastCall.context.participants) = 2
    /\ lastCall.context.participants[1].vote = VoteSome(TRUE)
    /\ lastCall.context.participants[2].vote = VoteNone
    /\ AbortIndices = {1}
    /\ Len(Returned) = 4
    /\ Returned[2] = SendMessage(lastCall.context.participants[1].process,
                                 AbortMsg(lastCall.context.epoch))

\* C28 witness: the coordinator's own Vote(false) aborts an all-yes epoch.
C28_VoteFalseWitness ==
    /\ CoordinatorCalled
    /\ lastCall.event.type = "Vote"
    /\ ~lastCall.event.vote
    /\ AbortIndices = {1}
    /\ Len(lastCall.context.participants) = 2
    /\ Len(Returned) = 5
    /\ \A k \in 1..2 : lastCall.context.participants[k].vote = VoteSome(TRUE)

\* The last call handed a Vote to the coordinator engine waiting for it.
CoordinatorVoteCalled ==
    /\ CoordinatorCalled
    /\ lastCall.event.type = "Vote"
    /\ lastCall.context.state.kind = "WaitingForVote"

\* The commit sequence as specified.
CommitSequence(context, time) ==
    LET committed == [context EXCEPT !.state = Commit] IN
    <<Update(committed, NoneV)>>
    \o [i \in 1..Len(context.participants) |->
            SendMessage(context.participants[i].process,
                        CommitMsg(context.epoch))]
    \o <<Notify("Commit")>>
    \o <<Update([committed EXCEPT !.state = WaitingForDecisionAck(time)],
                time + 5)>>

\* C29 -- Commit sequence: Vote(true) in WaitingForVote at epoch e returns,
\* in order, Update{state = Commit, alarm = None}, one SendMessage(p,
\* Commit(e)) for every participant of the list, Notify(Commit) and
\* Update{state = WaitingForDecisionAck{now}, alarm = Some(now + 5 s)};
\* Vote(false) in WaitingForVote returns the abort sequence instead.
C29_CommitSequence ==
    CoordinatorVoteCalled =>
        /\ lastCall.result.ok
        /\ Returned =
              IF lastCall.event.vote
              THEN CommitSequence(lastCall.context, lastCall.time)
              ELSE AbortSequence(lastCall.context, lastCall.time)

\* C29 witness: the coordinator of two participants that both voted yes
\* votes yes itself; five actions, Commit to both, and it waits for the acks.
C29_Witness ==
    /\ CoordinatorVoteCalled
    /\ lastCall.event.vote
    /\ Len(lastCall.context.participants) = 2
    /\ \A k \in 1..2 : lastCall.context.participants[k].vote = VoteSome(TRUE)
    /\ Len(Returned) = 5
    /\ Returned[1].context.state = Commit
    /\ IsSend(Returned[2]) /\ IsSend(Returned[3])
    /\ cctx.state = WaitingForDecisionAck(lastCall.time)

\* The processes of a participant list, in order.
ProcessesOf(participants) ==
    [i \in 1..Len(participants) |-> participants[i].process]

\* The i-th returned action is the Update of an epoch advance from the
\* context in force before it, and the Notify follows it.
AdvanceAsSpecified(i) ==
    LET old == ContextBefore(i)
        new == Returned[i].context
    IN  /\ Returned[i].alarm = NoneV
        /\ new.epoch = old.epoch + 1
        /\ new.state = WaitingForStart
        /\ \A k \in 1..Len(new.participants) :
              /\ new.participants[k].vote = VoteNone
              /\ ~new.participants[k].decision_ack
        /\ ProcessesOf(new.participants) = ProcessesOf(old.participants)
        /\ new.coordinator = old.coordinator
        /\ new.this_process = old.this_process
        /\ i + 1 = Len(Returned)
        /\ Returned[i + 1] = Notify("RequestForStart")

\* C30 -- Advance epoch: every coordinator epoch advance emits Update{alarm =
\* None} whose context has epoch = old epoch + 1, state = WaitingForStart
\* and, for every participant, vote = None and decision_ack = false, followed
\* by Notify(RequestForStart); coordinator, this_process and the set and
\* order of the participant processes are unchanged.
C30_AdvanceEpoch ==
    CoordinatorCalled => \A i \in AdvanceIndices : AdvanceAsSpecified(i)

\* C30 witness: the last DecisionAck of two participants that had voted
\* arrives; the advance clears both votes and both acks.
C30_Witness ==
    /\ CoordinatorCalled
    /\ lastCall.event.type = "Deliver"
    /\ lastCall.event.msg.type = "DecisionAck"
    /\ Len(lastCall.context.participants) = 2
    /\ \E k \in 1..2 : lastCall.context.participants[k].decision_ack
    /\ \E k \in 1..2 : lastCall.context.participants[k].vote # VoteNone
    /\ AdvanceIndices # {}
    /\ \A i \in AdvanceIndices : AdvanceAsSpecified(i)
    /\ cctx.epoch = lastCall.context.epoch + 1

\* The last call delivered a DecisionAck to the coordinator engine.
DecisionAckCalled ==
    /\ CoordinatorCalled
    /\ lastCall.event.type = "Deliver"
    /\ lastCall.event.msg.type = "DecisionAck"

\* The four conditions under which a DecisionAck is to be recorded.
DecisionAckAcceptable ==
    /\ Listed(lastCall.context, lastCall.event.from)
    /\ lastCall.event.msg.epoch = lastCall.context.epoch
    /\ lastCall.context.state.kind = "WaitingForDecisionAck"
    /\ ~SenderRecord.decision_ack

\* The first returned action is the Update that sets the sender's ack and
\* nothing else.
AckRecorded ==
    LET i == FindParticipant(lastCall.context.participants, lastCall.event.from)
    IN  /\ Returned # << >>
        /\ IsUpdate(Returned[1])
        /\ Returned[1].context =
              [lastCall.context EXCEPT !.participants[i].decision_ack = TRUE]

AcksMissing(context) ==
    \E i \in 1..Len(context.participants) :
        ~context.participants[i].decision_ack

\* C31 -- DecisionAck handling: the coordinator records DecisionAck(e) from
\* p, by an Update with p.decision_ack = true, if and only if p is a listed
\* participant, e is the current epoch, the state is WaitingForDecisionAck
\* and p has not yet acked; otherwise it returns a single MessageDropped.
\* When the recorded ack makes every participant acked the same list goes on
\* with the epoch advance (epoch + 1, WaitingForStart, RequestForStart);
\* otherwise the state stays WaitingForDecisionAck.
C31_DecisionAckHandling ==
    DecisionAckCalled =>
        /\ lastCall.result.ok
        /\ IF ~DecisionAckAcceptable THEN OnlyDropped
           ELSE /\ AckRecorded
                /\ IF AcksMissing(Returned[1].context)
                   THEN /\ Len(Returned) = 1
                        /\ ContextAfter.state = lastCall.context.state
                        /\ ContextAfter.epoch = lastCall.context.epoch
                   ELSE /\ Len(Returned) = 3
                        /\ AdvanceAsSpecified(2)
                        /\ ContextAfter.epoch = lastCall.context.epoch + 1
                        /\ ContextAfter.state = WaitingForStart

\* C31 witness: the first of two acks is recorded and the coordinator keeps
\* waiting for the second.
C31_Witness ==
    /\ DecisionAckCalled
    /\ DecisionAckAcceptable
    /\ Len(lastCall.context.participants) = 2
    /\ AckRecorded
    /\ AcksMissing(Returned[1].context)
    /\ cctx.state.kind = "WaitingForDecisionAck"

\* C31 witness: the second ack closes the epoch.
C31_AdvanceWitness ==
    /\ DecisionAckCalled
    /\ DecisionAckAcceptable
    /\ Len(lastCall.context.participants) = 2
    /\ Len(Returned) = 3
    /\ cctx.state = WaitingForStart

\* C31 witness: an ack repeated by the same participant is dropped.
C31_DuplicateWitness ==
    /\ DecisionAckCalled
    /\ Listed(lastCall.context, lastCall.event.from)
    /\ lastCall.event.msg.epoch = lastCall.context.epoch
    /\ lastCall.context.state.kind = "WaitingForDecisionAck"
    /\ SenderRecord.decision_ack
    /\ OnlyDropped


\* The last call gave an Alarm to the coordinator engine.
CoordinatorAlarmCalled ==
    CoordinatorCalled /\ lastCall.event.type = "Alarm"

\* The ack timeout of the input context has expired at the time of the call.
AckTimeoutExpired ==
    /\ lastCall.context.state.kind = "WaitingForDecisionAck"
    /\ lastCall.time > lastCall.context.state.start + ACK_TIMEOUT_SECONDS

\* No participant of the input context has acknowledged the decision.
NobodyAcked ==
    \A i \in 1..Len(lastCall.context.participants) :
        ~lastCall.context.participants[i].decision_ack

\* The returned list is the epoch advance and nothing else, and applying it
\* leaves the coordinator in WaitingForStart at the next epoch.
AdvancesEpoch ==
    /\ lastCall.result.ok
    /\ Len(Returned) = 2
    /\ IsUpdate(Returned[1])
    /\ AdvanceAsSpecified(1)
    /\ ContextAfter.epoch = lastCall.context.epoch + 1
    /\ ContextAfter.state = WaitingForStart

\* C32 -- Coordinator post-decision alarms: an Alarm in WaitingForDecisionAck
\* with now > ack_timeout_start + 5s advances the epoch whether or not any
\* participant has acknowledged, and an Alarm in Commit or Abort advances
\* the epoch unconditionally; so a coordinator in WaitingForDecisionAck that
\* is given its ack alarm after the deadline is in WaitingForStart at the
\* next epoch once the returned Update is applied, without any DecisionAck.
C32_PostDecisionAlarms ==
    (/\ CoordinatorAlarmCalled
     /\ \/ AckTimeoutExpired
        \/ lastCall.context.state.kind \in {"Commit", "Abort"})
        => AdvancesEpoch

\* C32 witness: the ack alarm arrives after its deadline at a coordinator
\* none of whose two participants has acknowledged, and the epoch advances.
C32_Witness ==
    /\ CoordinatorAlarmCalled
    /\ AckTimeoutExpired
    /\ Len(lastCall.context.participants) = 2
    /\ NobodyAcked
    /\ AdvancesEpoch

\* C32 witness: an Alarm in state Commit advances the epoch.
C32_CommitWitness ==
    /\ CoordinatorAlarmCalled
    /\ lastCall.context.state.kind = "Commit"
    /\ AdvancesEpoch


\* The last call gave an Alarm to an engine whose input state carries a
\* timeout, and the engine's timeout check fails at the time of the call.
TimeoutCheckFails ==
    LET state == lastCall.context.state
        timeout == CASE state.kind = "Voting" -> VOTE_TIMEOUT_SECONDS
                     [] state.kind = "WaitingForDecisionAck" -> ACK_TIMEOUT_SECONDS
                     [] OTHER -> DECISION_TIMEOUT_SECONDS
    IN  /\ CoordinatorCalled \/ ParticipantCalled
        /\ lastCall.event.type = "Alarm"
        /\ IF CoordinatorCalled
           THEN state.kind \in {"Voting", "WaitingForDecisionAck"}
           ELSE state.kind = "Voted"
        /\ lastCall.time <= state.start + timeout

\* The context the called process holds once the returned actions are applied.
HeldAfterCall ==
    IF CoordinatorCalled THEN cctx ELSE pctx[lastCall.process]

\* C33 -- Early or late alarms are ignored: an Alarm given while the timeout
\* check fails (now <= timeout_start + timeout) in coordinator Voting,
\* coordinator WaitingForDecisionAck or participant Voted returns Ok with an
\* empty action list, no Update, no message and no notification, so the
\* context and the alarm set by the last Update stay as they were.
C33_EarlyAlarmIgnored ==
    TimeoutCheckFails =>
        /\ lastCall.result.ok
        /\ Returned = << >>
        /\ HeldAfterCall = lastCall.context
        /\ \A timer \in {NoneV, lastCall.context.state.start} :
              TimerAfter(timer, Returned) = timer

\* C33 witness: the vote alarm is given to the coordinator exactly at its
\* deadline and is ignored.
C33_Witness ==
    /\ TimeoutCheckFails
    /\ CoordinatorCalled
    /\ lastCall.context.state.kind = "Voting"
    /\ lastCall.time = lastCall.context.state.start + VOTE_TIMEOUT_SECONDS
    /\ Returned = << >>
    /\ cctx = lastCall.context

\* C33 witness: a participant in Voted is given an Alarm before its decision
\* timeout has run out and ignores it.
C33_ParticipantWitness ==
    /\ TimeoutCheckFails
    /\ ParticipantCalled
    /\ lastCall.time < lastCall.context.state.start + DECISION_TIMEOUT_SECONDS
    /\ Returned = << >>
    /\ pctx[lastCall.process] = lastCall.context


\* The last call delivered a VoteRequest to the participant engine.
VoteRequestCalled ==
    /\ ParticipantCalled
    /\ lastCall.event.type = "Deliver"
    /\ lastCall.event.msg.type = "VoteRequest"

VoteRequestAcceptable ==
    /\ lastCall.event.from = lastCall.context.coordinator
    /\ lastCall.event.msg.epoch = lastCall.context.epoch
    /\ lastCall.context.state.kind = "WaitingForVoteRequest"

\* No action of the returned list sends a message.
SendsNothing ==
    \A i \in 1..Len(Returned) : ~IsSend(Returned[i])

\* C34 -- Participant VoteRequest: a participant accepts VoteRequest(e, v)
\* if and only if the sender is the coordinator, e is its epoch and its state
\* is WaitingForVoteRequest; it then returns Update{state = WaitingForVote,
\* alarm = None} followed by Notify(RequestForVote(v)) and sends nothing. In
\* every other case, a duplicate VoteRequest after it moved on included, it
\* returns a single MessageDropped and no Update.
C34_ParticipantVoteRequest ==
    VoteRequestCalled =>
        /\ lastCall.result.ok
        /\ SendsNothing
        /\ IF VoteRequestAcceptable
           THEN /\ Len(Returned) = 2
                /\ Returned[1] =
                      Update([lastCall.context EXCEPT !.state = WaitingForVote],
                             NoneV)
                /\ Returned[2] = RequestForVoteValue(lastCall.event.msg.value)
                /\ pctx[lastCall.process].state = WaitingForVote
           ELSE /\ OnlyDropped
                /\ pctx[lastCall.process] = lastCall.context

\* C34 witness: the coordinator's VoteRequest for the current epoch reaches a
\* participant that waits for it.
C34_Witness ==
    /\ VoteRequestCalled
    /\ VoteRequestAcceptable
    /\ Len(Returned) = 2
    /\ IsUpdate(Returned[1])
    /\ pctx[lastCall.process].state = WaitingForVote

\* C34 witness: the same VoteRequest arrives again after the participant
\* moved on to WaitingForVote and is dropped.
C34_DuplicateWitness ==
    /\ VoteRequestCalled
    /\ lastCall.event.from = lastCall.context.coordinator
    /\ lastCall.event.msg.epoch = lastCall.context.epoch
    /\ lastCall.context.state = WaitingForVote
    /\ OnlyDropped

\* C34 witness: a VoteRequest of the right epoch from a process that is not
\* the coordinator is dropped by a participant waiting for one.
C34_WrongSenderWitness ==
    /\ VoteRequestCalled
    /\ lastCall.event.from # lastCall.context.coordinator
    /\ lastCall.event.msg.epoch = lastCall.context.epoch
    /\ lastCall.context.state.kind = "WaitingForVoteRequest"
    /\ OnlyDropped


\* The last call gave a Vote to a participant that waits for its embedder's
\* vote.
ParticipantVoteCalled ==
    /\ ParticipantCalled
    /\ lastCall.event.type = "Vote"
    /\ lastCall.context.state = WaitingForVote

\* The returned list is the Update of the vote followed by the VoteResponse
\* to the coordinator, and nothing else.
VoteAsSpecified ==
    LET context == lastCall.context
        vote == lastCall.event.vote
        time == lastCall.time
    IN  /\ lastCall.result.ok
        /\ Len(Returned) = 2
        /\ Returned[1] =
              IF vote
              THEN Update([context EXCEPT !.state = Voted(TRUE, time)],
                          time + DECISION_TIMEOUT_SECONDS)
              ELSE Update([context EXCEPT !.state = Abort], NoneV)
        /\ Returned[2] = SendMessage(context.coordinator,
                                     VoteResponse(context.epoch, vote))

\* The VoteResponses process p has sent for epoch e.
VoteResponsesOf(p, e) ==
    {m \in net : /\ m.from = p
                 /\ m.msg.type = "VoteResponse"
                 /\ m.msg.epoch = e}

\* A call of a participant engine has just returned a VoteResponse.
VoteResponseReturned ==
    /\ ParticipantCalled
    /\ \E i \in 1..Len(Returned) :
          IsSend(Returned[i]) /\ Returned[i].msg.type = "VoteResponse"

\* C35 -- Participant Vote: in WaitingForVote at epoch e, Vote(true) returns
\* Update{state = Voted{vote = true, decision_timeout_start = now}, alarm =
\* now + 30s} then SendMessage(coordinator, VoteResponse(e, true)), and
\* Vote(false) returns Update{state = Abort, alarm = None} then
\* SendMessage(coordinator, VoteResponse(e, false)); the Update precedes the
\* VoteResponse, and a participant never sends two VoteResponses for one
\* epoch: whenever a call returns a VoteResponse, it is a Vote in
\* WaitingForVote and the process has sent none for that epoch before.
C35_ParticipantVote ==
    [][(lastCall' # lastCall /\ VoteResponseReturned')
          => /\ ParticipantVoteCalled'
             /\ VoteAsSpecified'
             /\ VoteResponsesOf(lastCall'.process, lastCall'.context.epoch) = {}]_vars

\* C35 witness: a participant has voted yes; its Voted state with the
\* decision alarm comes first in the list and its VoteResponse is in flight.
C35_Witness ==
    /\ ParticipantVoteCalled
    /\ lastCall.event.vote
    /\ VoteAsSpecified
    /\ IsUpdate(Returned[1])
    /\ Returned[1].alarm = lastCall.time + DECISION_TIMEOUT_SECONDS
    /\ VoteResponsesOf(lastCall.process, lastCall.context.epoch) # {}

\* C35 witness: a participant has voted no and is in Abort.
C35_NoVoteWitness ==
    /\ ParticipantVoteCalled
    /\ ~lastCall.event.vote
    /\ VoteAsSpecified
    /\ pctx[lastCall.process].state = Abort

\* The vote sequence of C35 for a Vote on any context in WaitingForVote.
VoteSequenceAnyContext ==
    ParticipantVoteCalled => VoteAsSpecified


\* The last call delivered a Commit or an Abort to the participant engine.
DecisionDelivered ==
    /\ ParticipantCalled
    /\ lastCall.event.type = "Deliver"
    /\ lastCall.event.msg.type \in {"Commit", "Abort"}

\* The decision is of the participant's epoch and meets it in state Voted.
DecisionAcceptable ==
    /\ lastCall.event.msg.epoch = lastCall.context.epoch
    /\ lastCall.context.state.kind = "Voted"

\* An acceptable decision returns exactly one Update, into the state of the
\* same name with no alarm; any other returns a single MessageDropped.
DecisionAsSpecified ==
    /\ lastCall.result.ok
    /\ IF DecisionAcceptable
       THEN Returned =
               <<Update([lastCall.context EXCEPT !.state =
                            State(lastCall.event.msg.type)], NoneV)>>
       ELSE OnlyDropped /\ pctx[lastCall.process] = lastCall.context

\* A participant whose context holds a decision keeps it while its epoch is
\* the same.
DecisionKept ==
    \A p \in DOMAIN pctx :
        (/\ pctx[p].state.kind \in {"Commit", "Abort"}
         /\ pctx'[p].epoch = pctx[p].epoch)
            => pctx'[p].state = pctx[p].state

\* C36 -- Participant decision: a participant changes state on Commit(e) or
\* Abort(e) only when e is its epoch and its state is Voted, and then returns
\* exactly one Update{state = Commit or Abort, alarm = None}; otherwise the
\* message is dropped. So a participant in Abort never moves to Commit, and a
\* recorded decision is never overwritten within an epoch.
C36_ParticipantDecision ==
    [][/\ DecisionDelivered' => DecisionAsSpecified'
       /\ DecisionKept]_vars

\* C36 witness: a Commit of the current epoch reaches a participant in Voted
\* and is recorded by a single Update.
C36_Witness ==
    /\ DecisionDelivered
    /\ DecisionAcceptable
    /\ lastCall.event.msg.type = "Commit"
    /\ Len(Returned) = 1
    /\ IsUpdate(Returned[1])
    /\ pctx[lastCall.process].state = Commit

\* C36 witness: a Commit of the current epoch reaches a participant that has
\* aborted and is dropped.
C36_AbortedWitness ==
    /\ DecisionDelivered
    /\ lastCall.event.msg.type = "Commit"
    /\ lastCall.event.msg.epoch = lastCall.context.epoch
    /\ lastCall.context.state = Abort
    /\ OnlyDropped
    /\ pctx[lastCall.process].state = Abort


\* The last call gave an Alarm to a participant in Voted whose decision
\* timeout has run out.
DecisionTimeoutExpired ==
    /\ ParticipantAlarmCalled
    /\ lastCall.context.state.kind = "Voted"
    /\ lastCall.time > lastCall.context.state.start + DECISION_TIMEOUT_SECONDS

\* The listed participant processes other than the called one, in list order.
OtherParticipants ==
    SelectSeq(lastCall.context.participant_processes,
              LAMBDA q : q # lastCall.context.this_process)

\* Action i of the returned list sends DecisionRequest(epoch) to process q.
RequestsDecisionOf(i, q) ==
    Returned[i] = SendMessage(q, DecisionRequest(lastCall.context.epoch))

\* C37 -- Participant decision timeout: an Alarm in Voted{vote, t0} with
\* now > t0 + 30s returns SendMessage(q, DecisionRequest(e)) for every q of
\* participant_processes other than this_process, then one to the
\* coordinator, then Update{state = Voted{vote, now}, alarm = now + 30s}; the
\* participant stays in Voted with the same vote and epoch, re-armed.
C37_DecisionTimeout ==
    DecisionTimeoutExpired =>
        LET n == Len(OtherParticipants)
            after == pctx[lastCall.process]
        IN  /\ lastCall.result.ok
            /\ Len(Returned) = n + 2
            /\ \A i \in 1..n : RequestsDecisionOf(i, OtherParticipants[i])
            /\ RequestsDecisionOf(n + 1, lastCall.context.coordinator)
            /\ Returned[n + 2] =
                  Update([lastCall.context EXCEPT !.state =
                             Voted(lastCall.context.state.vote, lastCall.time)],
                         lastCall.time + DECISION_TIMEOUT_SECONDS)
            /\ after.state.kind = "Voted"
            /\ after.state.vote = lastCall.context.state.vote
            /\ after.state.start = lastCall.time
            /\ after.epoch = lastCall.context.epoch
            /\ ptimer[lastCall.process] = lastCall.time + DECISION_TIMEOUT_SECONDS

\* C37 witness: the decision timeout of a participant listed with one other
\* participant runs out; it asks that participant, then the coordinator, and
\* re-arms.
C37_Witness ==
    /\ DecisionTimeoutExpired
    /\ lastCall.context.participant_processes = <<P1, P2>>
    /\ lastCall.process = P1
    /\ Len(Returned) = 3
    /\ RequestsDecisionOf(1, P2)
    /\ RequestsDecisionOf(2, lastCall.context.coordinator)
    /\ IsUpdate(Returned[3])
    /\ ptimer[P1] = lastCall.time + DECISION_TIMEOUT_SECONDS


\* The state carries a timeout.
Timed(state) ==
    state.kind \in {"Voting", "WaitingForDecisionAck", "Voted"}

\* The last Update of the list the last call returned: the one whose context
\* and alarm are in force afterwards.
LastUpdate == Returned[Max(UpdateIndices(Returned))]

\* C38 -- Timed states stay armed: only the most recent Update's alarm is in
\* force, and whenever the last applied Update leaves the coordinator in
\* Voting or WaitingForDecisionAck, or a participant in Voted, that alarm is
\* Some(timeout_start + timeout) of the state; no Update that keeps the
\* process in a timed state, such as the one recording a VoteResponse or a
\* DecisionAck, carries alarm = None.
C38_TimedStatesArmed ==
    (/\ CoordinatorCalled \/ ParticipantCalled
     /\ UpdateIndices(Returned) # {}
     /\ Timed(LastUpdate.context.state))
        => LastUpdate.alarm = TimeoutOf(LastUpdate.context.state)

\* The Update recording one of two awaited VoteResponses is the last of its
\* list, keeps the coordinator in Voting and carries no alarm.
C38_UnarmedVoting ==
    /\ VoteResponseCalled
    /\ Len(Returned) = 1
    /\ IsUpdate(Returned[1])
    /\ Returned[1].context.state.kind = "Voting"
    /\ Returned[1].alarm = NoneV
    /\ cctx.state.kind = "Voting"
    /\ ctimer = NoneV

\* The same for the Update recording one of two awaited DecisionAcks.
C38_UnarmedWaitingForDecisionAck ==
    /\ DecisionAckCalled
    /\ Len(Returned) = 1
    /\ IsUpdate(Returned[1])
    /\ Returned[1].context.state.kind = "WaitingForDecisionAck"
    /\ Returned[1].alarm = NoneV
    /\ cctx.state.kind = "WaitingForDecisionAck"
    /\ ctimer = NoneV


(***************************************************************************)
(* SequenceSpec: the coordinator engine alone, from its epoch-0 context,   *)
(* is fed any sequence of its events, a Start in any state included, and   *)
(* every returned Update is applied.                                       *)
(***************************************************************************)
SequenceInit ==
    \E ps \in ParticipantLists :
        /\ cctx = CoordinatorContext(NoneV, Coord, 0, NoneV, Coord,
                                     MapSeq(ps, Participant), WaitingForStart)
        /\ ctimer = NoneV
        /\ pctx = << >>
        /\ ptimer = << >>
        /\ net = {}
        /\ now = 0
        /\ lastCall = NoCall
        /\ decisions = {}
        /\ decisionSent = {}
        /\ yesRecorded = {}
        /\ builder = NoBuilder
        /\ built = NotBuilt
        /\ uctx = NoUnified
        /\ utimer = NoUnified

\* The events of a sequence: Start, Vote and Alarm at any time, and the
\* VoteResponses and DecisionAcks of the listed participants for the epoch
\* of the held context.
SequenceEvents ==
    {StartEv(v) : v \in Values} \cup {VoteEv(b) : b \in BOOLEAN} \cup {AlarmEv}
    \cup {Deliver(cctx.participants[i].process, m) :
            i \in 1..Len(cctx.participants),
            m \in {VoteResponse(cctx.epoch, b) : b \in BOOLEAN}
                  \cup {DecisionAck(cctx.epoch)}}

\* CoordinatorAlgorithm::event on the held context with any of these events.
SequenceFeed ==
    \E event \in SequenceEvents : SysCoordinator(event)

\* TimeSource::now() advances past the vote timeout, the longer of the
\* coordinator's two.
SequenceTick ==
    /\ now + VOTE_TIMEOUT_SECONDS + 1 <= MaxTime
    /\ now' = now + VOTE_TIMEOUT_SECONDS + 1
    /\ UNCHANGED <<cctx, ctimer, pctx, ptimer, net, lastCall,
                   decisions, decisionSent, yesRecorded, builderVars, unifiedVars>>

SequenceNext ==
    \/ SequenceFeed
    \/ SequenceTick

SequenceSpec == SequenceInit /\ [][SequenceNext]_vars

\* The coordinator has emitted decision d for epoch e: by the state of an
\* Update, or by the decision message of a decision sequence.
Emitted(d, e) ==
    \/ [process |-> Coord, epoch |-> e, decision |-> d] \in decisions
    \/ [type |-> d, epoch |-> e] \in decisionSent

\* The last call returned a VoteRequest for epoch e.
VoteRequestReturned(e) ==
    /\ CoordinatorCalled
    /\ \E i \in 1..Len(Returned) :
          /\ IsSend(Returned[i])
          /\ Returned[i].msg.type = "VoteRequest"
          /\ Returned[i].msg.epoch = e

\* Epoch e was decided before the last call.
DecidedBefore(e) ==
    \E m \in lastCall.sentBefore : m.epoch = e

\* C39 -- One decision per epoch at the coordinator: for any sequence of
\* events fed to the coordinator engine with its Updates applied, a Start in
\* a state other than WaitingForStart included, the coordinator never emits
\* both a Commit and an Abort decision for the same epoch, and never emits
\* VoteRequest(e, _) after it has decided epoch e.
C39_OneDecisionPerEpoch ==
    \A e \in Epochs :
        /\ ~(Emitted("Commit", e) /\ Emitted("Abort", e))
        /\ VoteRequestReturned(e) => ~DecidedBefore(e)

\* A Start given to a coordinator that waits for the acks of its decision
\* returns VoteRequests for the epoch just decided.
C39_VoteRequestAfterDecision ==
    /\ CoordinatorCalled
    /\ lastCall.event.type = "Start"
    /\ lastCall.context.state.kind = "WaitingForDecisionAck"
    /\ VoteRequestReturned(lastCall.context.epoch)
    /\ DecidedBefore(lastCall.context.epoch)
    /\ cctx.state.kind = "Voting"
    /\ cctx.epoch = lastCall.context.epoch

\* The coordinator has emitted Commit and then Abort for one epoch.
C39_BothDecisions ==
    \E e \in Epochs :
        /\ Emitted("Commit", e)
        /\ [process |-> Coord, epoch |-> e, decision |-> "Abort"] \in decisions
        /\ [type |-> "Abort", epoch |-> e] \in decisionSent


\* No action of the list the last call returned sends a DecisionAck.
NoDecisionAckSent ==
    \A i \in 1..Len(Returned) :
        ~(IsSend(Returned[i]) /\ Returned[i].msg.type = "DecisionAck")

\* The last call moved the coordinator out of WaitingForDecisionAck.
LeftWaitingForDecisionAck ==
    /\ CoordinatorCalled
    /\ lastCall.context.state.kind = "WaitingForDecisionAck"
    /\ cctx.state.kind # "WaitingForDecisionAck"

\* The part of C40 about the returned lists: no engine call returns a
\* SendMessage carrying DecisionAck, and a participant that accepts a Commit
\* or an Abort returns only an Update.
EngineSendsNoDecisionAck ==
    (CoordinatorCalled \/ ParticipantCalled) =>
        /\ NoDecisionAckSent
        /\ (DecisionDelivered /\ DecisionAcceptable)
              => Len(Returned) = 1 /\ IsUpdate(Returned[1])

\* C40 -- DecisionAck is never produced by the engine: no action list the
\* coordinator engine or the participant engine returns, for any event and
\* context, holds a SendMessage carrying DecisionAck, and a participant that
\* accepts Commit(e) or Abort(e) returns only an Update; so a coordinator in
\* WaitingForDecisionAck leaves that state only through a DecisionAck event
\* given to it from outside or through the ack timeout.
C40_NoEngineDecisionAck ==
    /\ EngineSendsNoDecisionAck
    /\ LeftWaitingForDecisionAck
          => \/ DecisionAckCalled
             \/ CoordinatorAlarmCalled /\ AckTimeoutExpired

\* A Start given to a coordinator in WaitingForDecisionAck moves it to Voting
\* at the same epoch.
C40_LeftByStart ==
    /\ LeftWaitingForDecisionAck
    /\ lastCall.event.type = "Start"
    /\ cctx.state.kind = "Voting"
    /\ cctx.epoch = lastCall.context.epoch

\* A participant in Voted accepts the Abort of its epoch and returns the
\* Update alone, with no DecisionAck for the coordinator.
C40_AcceptedWitness ==
    /\ DecisionDelivered
    /\ DecisionAcceptable
    /\ lastCall.event.msg.type = "Abort"
    /\ Len(Returned) = 1
    /\ IsUpdate(Returned[1])
    /\ NoDecisionAckSent

====
